---- MODULE Spec2Model ----
(***************************************************************************)
(* Model of the agent-skills provider                                      *)
(*   python/packages/core/agent_framework/_skills/_agent_skills_provider.py *)
(*   python/packages/core/agent_framework/_skills/_models.py                *)
(*                                                                         *)
(* Every Python str is a sequence of atoms (TLA+ strings): an atom is one  *)
(* character ("a", "-", "\n", "/") or an indivisible run of characters     *)
(* that no modelled operation looks inside ("FAQ.md", "Error").  A path    *)
(* (pathlib.Path) is the sequence of its components below "/".             *)
(***************************************************************************)
EXTENDS Naturals, Integers, Sequences, FiniteSets, TLC

VARIABLES
    phase,       \* "Uninitialized" | "Built" | "Raised" (constructor threw)
    fs,          \* the file system: physical path -> node
    iterOrder,   \* the order in which the OS lists directory entries
    producers,   \* what the integrator's callables do now: id -> outcome
    args,        \* the constructor's arguments: skill_paths, resource_extensions,
                 \* instruction_template
    codeSkills,  \* the AgentSkill objects passed as skills=[...] (shared objects)
    context,     \* the SessionContext of the latest before_run call
    tasks,       \* the read_skill_resource coroutines of the event loop
    provider,    \* the AgentSkillsProvider: _skills, _instructions, _tools
    last,        \* the call that returned last, in the world as it is now:
                 \* operation, arguments, outcome; NoCall once the world moved on
    rd           \* a file-resource read in progress: position and locals

vars == <<phase, fs, iterOrder, producers, args, codeSkills, context, tasks, provider, last, rd>>

-----------------------------------------------------------------------------
(* Bounds of the model *)

\* longest chain of symbolic links the OS follows before failing with ELOOP
MaxLinkHops == 2

\* longest list of code-defined skills handed to the constructor
MaxCodeSkills == 2

\* how many read_skill_resource coroutines the event loop holds at once
MaxTasks == 2

\* how many resources the integrator registers on one skill object
MaxResources == 2

-----------------------------------------------------------------------------
(* Program constants *)

SKILL_FILE_NAME == "SKILL.md"
MAX_SEARCH_DEPTH == 2
MAX_NAME_LENGTH == 64
MAX_DESCRIPTION_LENGTH == 1024
DEFAULT_RESOURCE_EXTENSIONS == {".md", ".json", ".yaml", ".yml", ".csv", ".xml", ".txt"}

-----------------------------------------------------------------------------
(* Strings *)

None == <<>>
Some(x) == <<x>>

\* list.extend, once for each list of ss in turn
RECURSIVE Extend(_, _)
Extend(ss, i) == IF i > Len(ss) THEN <<>> ELSE ss[i] \o Extend(ss, i + 1)

\* a local variable: F of the value v, which is computed once
With(v, F(_)) == F(v)

Whitespace == {" ", "\t", "\n", "\r"}

LowerLetters ==
    {"a","b","c","d","e","f","g","h","i","j","k","l","m",
     "n","o","p","q","r","s","t","u","v","w","x","y","z"}

Digits == {"0","1","2","3","4","5","6","7","8","9"}

\* str.strip() leaves nothing: the string is empty or all whitespace
IsBlank(s) == \A i \in 1..Len(s) : s[i] \in Whitespace

\* `not s or not s.strip()`
EmptyOrBlank(s) == Len(s) = 0 \/ IsBlank(s)

Rep(c, n) == [i \in 1..n |-> c]

StartsWith(s, p) == Len(s) >= Len(p) /\ SubSeq(s, 1, Len(p)) = p

\* str.lower() / str.upper() on the atoms that carry upper-case letters
LowerAtom(a) ==
    CASE a = "FAQ.md"   -> "faq.md"
      [] a = "FAQ.MD"   -> "faq.md"
      [] a = "REFS"     -> "refs"
      [] a = "SKILL.md" -> "skill.md"
      [] a = "A"        -> "a"
      [] a = ".MD"      -> ".md"
      [] a = "Name"     -> "name"
      [] OTHER          -> a

UpperAtom(a) ==
    CASE a \in {"SKILL.md", "skill.md"} -> "SKILL.MD"
      [] a \in {"FAQ.md", "faq.md"}     -> "FAQ.MD"
      [] a = "doc.md"                   -> "DOC.MD"
      [] OTHER                          -> a

Lower(s) == [i \in 1..Len(s) |-> LowerAtom(s[i])]

Replace(s, old, new) == [i \in 1..Len(s) |-> IF s[i] = old THEN new ELSE s[i]]

Last(s) == s[Len(s)]

Front(s) == SubSeq(s, 1, Len(s) - 1)

-----------------------------------------------------------------------------
(* Paths: pathlib and os.path, on POSIX *)

\* PurePosixPath(s).parts below the anchor: "/" separates, empty and "."
\* components are dropped, ".." is kept
PathParts(s) == SelectSeq(s, LAMBDA a : a # "/" /\ a # ".")

IsAbsolute(s) == Len(s) > 0 /\ s[1] = "/"

RECURSIVE JoinSlash(_)
JoinSlash(parts) ==
    IF Len(parts) = 0 THEN <<>>
    ELSE IF Len(parts) = 1 THEN parts
    ELSE <<Head(parts), "/">> \o JoinSlash(Tail(parts))

\* PurePosixPath.as_posix() / str(Path)
AsPosix(abs, parts) ==
    IF abs THEN <<"/">> \o JoinSlash(parts)
    ELSE IF parts = <<>> THEN <<".">>
    ELSE JoinSlash(parts)

\* the process's working directory
Cwd == <<"w">>

\* Path(s).absolute(), as components below "/"
AbsParts(s) == IF IsAbsolute(s) THEN PathParts(s) ELSE Cwd \o PathParts(s)

\* str(Path(s).absolute())
AbsStr(s) == AsPosix(TRUE, AbsParts(s))

\* Path(base) / name : an absolute right operand replaces the left one
JoinPath(base, name) ==
    IF IsAbsolute(name) THEN AsPosix(TRUE, PathParts(name))
    ELSE AsPosix(IsAbsolute(base), PathParts(base) \o PathParts(name))

RECURSIVE CollapseDotDot(_, _)
CollapseDotDot(done, rest) ==
    IF rest = <<>> THEN done
    ELSE IF Head(rest) = ".."
         THEN CollapseDotDot(IF done = <<>> THEN <<>> ELSE Front(done), Tail(rest))
         ELSE CollapseDotDot(Append(done, Head(rest)), Tail(rest))

\* os.path.normpath of an absolute path: ".." removes the component before
\* it, lexically, and is dropped at "/"
NormPath(s) == AsPosix(TRUE, CollapseDotDot(<<>>, PathParts(s)))

\* PurePath.is_relative_to: whole components, never a string prefix
IsRelativeTo(p, d) ==
    /\ Len(d) <= Len(p)
    /\ SubSeq(p, 1, Len(d)) = d

\* PurePath.suffix of a component
Suffix(a) ==
    CASE a \in {"doc.md", "FAQ.md", "faq.md", "secret.md", "SKILL.md", "skill.md", "leak.md"} -> ".md"
      [] a = "FAQ.MD"   -> ".MD"
      [] a = "data.bin" -> ".bin"
      [] OTHER          -> ""

_normalize_resource_path(path) ==
    AsPosix(IsAbsolute(Replace(path, "\\", "/")), PathParts(Replace(path, "\\", "/")))

\* a containment test on the two path strings, str.startswith, which the
\* code does not use: "/w/r1/skill-a" is a prefix of "/w/r1/skill-a-evil"
StartsWithDirectory(path, directory) ==
    LET p == PathParts(path)
        d == PathParts(directory)
    IN  /\ Len(d) <= Len(p)
        /\ \A i \in 1..(Len(d) - 1) : p[i] = d[i]
        /\ d # <<>> => \/ p[Len(d)] = d[Len(d)]
                       \/ d[Len(d)] = "skill-a" /\ p[Len(d)] = "skill-a-evil"

_is_path_within_directory(path, directory) ==
    IsRelativeTo(PathParts(path), PathParts(directory))

-----------------------------------------------------------------------------
(* The file system.  f maps a physical path (components below "/") to a     *)
(* node; a path outside DOMAIN f, or mapped to NoNode, does not exist.      *)

NoNode == [k |-> "none", data |-> <<>>, to |-> <<>>, mode |-> "-"]
DirNode == [k |-> "dir", data |-> <<>>, to |-> <<>>, mode |-> "-"]
\* a regular file holding valid UTF-8 text
FileNode(text) == [k |-> "file", data |-> text, to |-> <<>>, mode |-> "utf8"]
\* a regular file whose bytes are not valid UTF-8
BinaryNode == [k |-> "file", data |-> <<>>, to |-> <<>>, mode |-> "binary"]
\* a regular file the process may not open
LockedNode(text) == [k |-> "file", data |-> text, to |-> <<>>, mode |-> "noperm"]
\* a symbolic link to the absolute path target
LinkNode(target) == [k |-> "link", data |-> <<>>, to |-> target, mode |-> "-"]

NodeAt(f, p) == IF p \in DOMAIN f THEN f[p] ELSE NoNode

\* the path no file system holds: what a failed lookup yields
NoPath == <<"?">>

\* The kernel's path walk from the physical directory cur over the
\* components rest, following every symbolic link it meets (the last
\* component included); NoPath for ENOENT, ENOTDIR and ELOOP.
RECURSIVE Walk(_, _, _, _)
Walk(f, cur, rest, hops) ==
    IF rest = <<>> THEN cur
    ELSE LET next == Append(cur, Head(rest))
             n == NodeAt(f, next)
         IN  CASE n.k = "none" -> NoPath
               [] n.k = "file" -> IF Tail(rest) = <<>> THEN next ELSE NoPath
               [] n.k = "dir"  -> Walk(f, next, Tail(rest), hops)
               [] n.k = "link" ->
                    IF hops = 0 THEN NoPath
                    ELSE LET t == Walk(f, <<>>, n.to, hops - 1)
                         IN  IF t = NoPath THEN NoPath
                             ELSE IF Tail(rest) = <<>> THEN t
                             ELSE IF NodeAt(f, t).k = "dir"
                                  THEN Walk(f, t, Tail(rest), hops)
                                  ELSE NoPath

\* os.stat: the node a path leads to, links followed
Stat(f, parts) ==
    With(Walk(f, <<>>, parts, MaxLinkHops), LAMBDA t :
        IF t = NoPath THEN NoNode
        ELSE IF t = <<>> THEN DirNode
        ELSE NodeAt(f, t))

\* os.lstat: links followed in the directory part only
LStat(f, parts) ==
    IF parts = <<>> THEN DirNode
    ELSE With(Walk(f, <<>>, Front(parts), MaxLinkHops), LAMBDA d :
             IF d = NoPath THEN NoNode
             ELSE IF d # <<>> /\ NodeAt(f, d).k # "dir" THEN NoNode
             ELSE NodeAt(f, Append(d, Last(parts))))

\* Path.is_file(), Path.is_dir(), Path.is_symlink() of a path string
IsFile(f, path) == Stat(f, AbsParts(path)).k = "file"
IsDir(f, path) == Stat(f, AbsParts(path)).k = "dir"
IsSymlink(f, path) == LStat(f, AbsParts(path)).k = "link"

\* Path.read_text(encoding="utf-8"): the text, or the exception raised
ReadText(f, path) ==
    With(Stat(f, AbsParts(path)), LAMBDA n :
        CASE n.k = "none"      -> [exc |-> Some("FileNotFoundError"), text |-> <<>>]
          [] n.k = "dir"       -> [exc |-> Some("IsADirectoryError"), text |-> <<>>]
          [] n.mode = "noperm" -> [exc |-> Some("PermissionError"), text |-> <<>>]
          [] n.mode = "binary" -> [exc |-> Some("UnicodeDecodeError"), text |-> <<>>]
          [] OTHER             -> [exc |-> None, text |-> n.data])

\* the exception classes that derive from OSError
OSErrors == {"FileNotFoundError", "IsADirectoryError", "PermissionError"}

\* Path.iterdir() / os.scandir: the entry names of a directory, in the
\* order ord in which the OS lists names
ListDir(f, ord, path) ==
    With(Walk(f, <<>>, AbsParts(path), MaxLinkHops), LAMBDA d :
        IF d = NoPath \/ (d # <<>> /\ NodeAt(f, d).k # "dir") THEN <<>>
        ELSE SelectSeq(ord, LAMBDA a : NodeAt(f, Append(d, a)).k # "none"))

-----------------------------------------------------------------------------
(* Skill metadata: validation and the manifest's frontmatter *)

\* re.match of VALID_NAME_RE's body, ^[a-z0-9]([a-z0-9\-]*[a-z0-9])?, against
\* the whole of s
MatchesNameBody(s) ==
    /\ Len(s) >= 1
    /\ s[1] \in LowerLetters \cup Digits
    /\ s[Len(s)] \in LowerLetters \cup Digits
    /\ \A i \in 1..Len(s) : s[i] \in LowerLetters \cup Digits \cup {"-"}

\* VALID_NAME_RE.match(name): Python's "$" matches at the end of the string
\* and also just before a newline that ends the string
VALID_NAME_RE(name) ==
    \/ MatchesNameBody(name)
    \/ /\ Len(name) >= 1
       /\ Last(name) = "\n"
       /\ MatchesNameBody(Front(name))

\* _validate_skill_metadata: which rule fails, or None when none does.
\* (The diagnostic's text is only logged.)
_validate_skill_metadata(name, description) ==
    IF EmptyOrBlank(name) THEN Some("missing a name")
    ELSE IF Len(name) > MAX_NAME_LENGTH \/ ~VALID_NAME_RE(name) THEN Some("invalid name")
    ELSE IF EmptyOrBlank(description) THEN Some("missing a description")
    ELSE IF Len(description) > MAX_DESCRIPTION_LENGTH THEN Some("invalid description")
    ELSE None

\* the byte-order mark U+FEFF
BOM == "\\uFEFF"

Quotes == {"\"", "'"}

\* the lines of s, split at "\n" (re.MULTILINE)
SplitLines(s) ==
    LET breaks == {i \in 1..Len(s) : s[i] = "\n"}
        starts == {1} \cup {i + 1 : i \in breaks}
        ends == breaks \cup {Len(s) + 1}
        Nth(S, k) == CHOOSE a \in S : Cardinality({b \in S : b < a}) = k - 1
    IN  [k \in 1..Cardinality(starts) |-> SubSeq(s, Nth(starts, k), Nth(ends, k) - 1)]

RECURSIVE LStrip(_)
LStrip(s) == IF s # <<>> /\ Head(s) \in Whitespace THEN LStrip(Tail(s)) ELSE s

RECURSIVE RStrip(_)
RStrip(s) == IF s # <<>> /\ Last(s) \in Whitespace THEN RStrip(Front(s)) ELSE s

\* a line that `---\s*$` matches from its first column
IsDelimiter(line) == line # <<>> /\ Head(line) = "---" /\ IsBlank(Tail(line))

\* FRONTMATTER_RE.search(content): the lines between the opening "---" line,
\* which must be the first line (after an optional BOM), and the first later
\* "---" line; None when the text has no such block
FrontmatterLines(content) ==
    With(SplitLines(IF content # <<>> /\ Head(content) = BOM
                          THEN Tail(content) ELSE content), LAMBDA lines :
        With({k \in 2..Len(lines) : IsDelimiter(lines[k])}, LAMBDA closers :
            IF ~IsDelimiter(lines[1]) \/ closers = {} THEN None
            ELSE Some(SubSeq(lines, 2,
                      (CHOOSE c \in closers : \A d \in closers : c <= d) - 1))))

\* YAML_KV_RE on one line: `key: value`, the value without the whitespace around
\* it and without one pair of enclosing quotes; None when the line does not match
KeyValue(line) ==
    With(LStrip(line), LAMBDA l :
        IF l = <<>> \/ Head(l) \in Quotes \cup {":", "---"} THEN None
        ELSE With(LStrip(Tail(l)), LAMBDA afterKey :
            IF afterKey = <<>> \/ Head(afterKey) # ":" THEN None
            ELSE With(RStrip(LStrip(Tail(afterKey))), LAMBDA v :
                IF v = <<>> THEN None
                ELSE IF Len(v) >= 3 /\ Head(v) \in Quotes /\ Last(v) \in Quotes
                     THEN Some([key |-> Head(l), value |-> SubSeq(v, 2, Len(v) - 1)])
                     ELSE Some([key |-> Head(l), value |-> v]))))

\* the value of the last line whose key is `key` in any letter case; None
\* when no line has it
RECURSIVE LastValue(_, _, _)
LastValue(lines, key, found) ==
    IF lines = <<>> THEN found
    ELSE With(KeyValue(Head(lines)), LAMBDA kv :
             IF kv # None /\ LowerAtom(kv[1].key) = key
             THEN LastValue(Tail(lines), key, kv[1].value)
             ELSE LastValue(Tail(lines), key, found))

\* _extract_frontmatter: Some([name, description]) or None
_extract_frontmatter(content) ==
    With(FrontmatterLines(content), LAMBDA fm :
        IF fm = None THEN None
        ELSE With(LastValue(fm[1], "name", None), LAMBDA name :
             With(LastValue(fm[1], "description", None), LAMBDA description :
                 IF _validate_skill_metadata(name, description) # None THEN None
                 ELSE Some([name |-> name, description |-> description]))))

\* _read_and_parse_skill_file: [exc, parsed] where parsed is None or
\* Some([name, description, content]).  Only an OSError of read_text is
\* caught; any other exception leaves the function.
_read_and_parse_skill_file(f, skill_dir_path) ==
    With(ReadText(f, JoinPath(skill_dir_path, <<SKILL_FILE_NAME>>)), LAMBDA r :
        IF r.exc # None
        THEN IF r.exc[1] \in OSErrors
             THEN [exc |-> None, parsed |-> None]
             ELSE [exc |-> r.exc, parsed |-> None]
        ELSE With(_extract_frontmatter(r.text), LAMBDA result :
                 IF result = None THEN [exc |-> None, parsed |-> None]
                 ELSE [exc |-> None,
                       parsed |-> Some([name |-> result[1].name,
                                        description |-> result[1].description,
                                        content |-> r.text])]))

-----------------------------------------------------------------------------
(* Path guard *)

\* a guard that looks at the last component only
HasSymlinkAtLeaf(f, path, directory) ==
    [exc |-> None, val |-> IsSymlink(f, path)]

\* _has_symlink_in_path: [exc, val]; val is whether some path below
\* directory, down to path itself, is a symbolic link.  The directory and
\* what lies above it are not looked at.
_has_symlink_in_path(f, path, directory) ==
    LET p == PathParts(path)
        d == PathParts(directory)
    IN  IF ~IsRelativeTo(p, d) THEN [exc |-> Some("ValueError"), val |-> FALSE]
        ELSE [exc |-> None,
              val |-> \E i \in (Len(d) + 1)..Len(p) :
                          IsSymlink(f, AsPosix(TRUE, SubSeq(p, 1, i)))]

-----------------------------------------------------------------------------
(* Directory scanner *)

\* _search of _discover_skill_directories, and its loop over the entries
RECURSIVE _search(_, _, _, _)
RECURSIVE SearchEntries(_, _, _, _, _)
\* a search that stops one level later
SearchOneLevelDeeper(f, ord, directory, current_depth) ==
    LET here == IF IsFile(f, JoinPath(directory, <<SKILL_FILE_NAME>>))
                THEN <<AbsStr(directory)>> ELSE <<>>
    IN  IF current_depth > MAX_SEARCH_DEPTH THEN here
        ELSE here \o SearchEntries(f, ord, directory, ListDir(f, ord, directory), current_depth)

_search(f, ord, directory, current_depth) ==
    LET here == IF IsFile(f, JoinPath(directory, <<SKILL_FILE_NAME>>))
                THEN <<AbsStr(directory)>> ELSE <<>>
    IN  IF current_depth >= MAX_SEARCH_DEPTH THEN here
        ELSE here \o SearchEntries(f, ord, directory, ListDir(f, ord, directory), current_depth)

SearchEntries(f, ord, directory, entries, current_depth) ==
    Extend([i \in 1..Len(entries) |->
               IF IsDir(f, JoinPath(directory, <<entries[i]>>))
               THEN _search(f, ord, JoinPath(directory, <<entries[i]>>), current_depth + 1)
               ELSE <<>>], 1)

RECURSIVE _discover_skill_directories(_, _, _)
_discover_skill_directories(f, ord, paths) ==
    IF paths = <<>> THEN <<>>
    ELSE LET root_dir == Head(paths)
         IN  (IF EmptyOrBlank(root_dir) \/ ~IsDir(f, root_dir) THEN <<>>
              ELSE _search(f, ord, root_dir, 0))
             \o _discover_skill_directories(f, ord, Tail(paths))

\* Path.rglob("*") below the directory dir: the entries of dir, then those of
\* each sub-directory in turn; a symbolic link to a directory is listed and
\* not entered.  Each entry is given by its components below dir.
RECURSIVE RGlob(_, _, _, _)
RECURSIVE RGlobInto(_, _, _, _, _)
RGlob(f, ord, dir, rel) ==
    With(ListDir(f, ord, AsPosix(TRUE, dir \o rel)), LAMBDA names :
        [i \in 1..Len(names) |-> Append(rel, names[i])] \o RGlobInto(f, ord, dir, rel, names))

RGlobInto(f, ord, dir, rel, names) ==
    Extend([i \in 1..Len(names) |->
               IF /\ IsDir(f, AsPosix(TRUE, dir \o Append(rel, names[i])))
                  /\ ~IsSymlink(f, AsPosix(TRUE, dir \o Append(rel, names[i])))
               THEN RGlob(f, ord, dir, Append(rel, names[i]))
               ELSE <<>>], 1)

\* a loop body that compares the extension as it is written
IsDiscoveredResourceCaseSensitive(f, skill_dir, rel, extensions) ==
    With(AsPosix(TRUE, skill_dir \o rel), LAMBDA resource_file :
    With(AbsStr(NormPath(resource_file)), LAMBDA resource_full_path :
    With(AsPosix(TRUE, skill_dir), LAMBDA root_directory_path :
        /\ IsFile(f, resource_file)
        /\ UpperAtom(Last(rel)) # UpperAtom(SKILL_FILE_NAME)
        /\ Suffix(Last(rel)) \in extensions
        /\ _is_path_within_directory(resource_full_path, root_directory_path)
        /\ ~_has_symlink_in_path(f, resource_full_path, root_directory_path).val)))

\* the body of the loop of _discover_resource_files: whether the entry
\* resource_file (components below the skill directory) becomes a resource
IsDiscoveredResource(f, skill_dir, rel, extensions) ==
    With(AsPosix(TRUE, skill_dir \o rel), LAMBDA resource_file :
    With(AbsStr(NormPath(resource_file)), LAMBDA resource_full_path :
    With(AsPosix(TRUE, skill_dir), LAMBDA root_directory_path :
        /\ IsFile(f, resource_file)
        /\ UpperAtom(Last(rel)) # UpperAtom(SKILL_FILE_NAME)
        /\ LowerAtom(Suffix(Last(rel))) \in {LowerAtom(e) : e \in extensions}
        /\ _is_path_within_directory(resource_full_path, root_directory_path)
        /\ ~_has_symlink_in_path(f, resource_full_path, root_directory_path).val)))

\* _discover_resource_files: the resource names, in discovery order
_discover_resource_files(f, ord, skill_dir_path, extensions) ==
    With(AbsParts(skill_dir_path), LAMBDA skill_dir :
    With(SelectSeq(RGlob(f, ord, skill_dir, <<>>),
             LAMBDA rel : IsDiscoveredResource(f, skill_dir, rel, extensions)), LAMBDA found :
        [i \in 1..Len(found) |-> _normalize_resource_path(AsPosix(FALSE, found[i]))]))

-----------------------------------------------------------------------------
(* Data model: _models.py *)

\* a callable: the closure over (skill, resource name) that discovery builds
\* for a file resource, or a function of the integrator (sync or async)
ReaderFn(skillName, skillPath, rn) ==
    [kind |-> "reader", id |-> "", sname |-> skillName, spath |-> skillPath, rn |-> rn]
CodeFn(kind, id) ==
    [kind |-> kind, id |-> id, sname |-> <<>>, spath |-> <<>>, rn |-> <<>>]

\* AgentSkillResource.__init__: the object, given arguments it accepts
AgentSkillResource(name, description, content, function) ==
    [name |-> name, description |-> description, content |-> content, function |-> function]

\* a constructor that looks at the name only
ResourceArgsRejectedByName(name, content, function) == EmptyOrBlank(name)

\* the arguments AgentSkillResource.__init__ rejects with ValueError
ResourceArgsRejected(name, content, function) ==
    \/ EmptyOrBlank(name)
    \/ content = None /\ function = None
    \/ content # None /\ function # None

\* AgentSkill.__init__: the object, given arguments it accepts
AgentSkill(name, description, content, resources, path) ==
    [name |-> name, description |-> description, content |-> content,
     resources |-> resources, path |-> path]

\* the arguments AgentSkill.__init__ rejects with ValueError
SkillArgsRejected(name, description) ==
    EmptyOrBlank(name) \/ EmptyOrBlank(description)

-----------------------------------------------------------------------------
(* Registry: _discover_file_skills and _load_skills *)

\* A registry entry refers to a skill object: ref = 0 for the file-based
\* skill obj that discovery created, ref = i for the caller's object
\* codeSkills[i], which the registry shares with the caller.
NoSkill == AgentSkill(<<>>, <<>>, <<>>, <<>>, None)
FileEntry(skill) == [ref |-> 0, obj |-> skill]
CodeEntry(i) == [ref |-> i, obj |-> NoSkill]

\* lines 715-725: the file-based skill and its resources, each a closure
\* that reads the file when it is called
FileSkill(f, ord, parsed, skill_path, extensions) ==
    With(_discover_resource_files(f, ord, skill_path, extensions), LAMBDA names :
        AgentSkill(parsed.name, parsed.description, parsed.content,
            [i \in 1..Len(names) |->
                AgentSkillResource(names[i], None, None,
                    Some(ReaderFn(parsed.name, skill_path, names[i])))],
            skill_path))

\* the loop of _discover_file_skills over the discovered directories:
\* [exc, skills]; an exception ends the loop and leaves the function
RECURSIVE FileSkillsLoop(_, _, _, _, _)
FileSkillsLoop(f, ord, discovered, extensions, acc) ==
    IF discovered = <<>> THEN [exc |-> None, skills |-> acc]
    ELSE With(_read_and_parse_skill_file(f, Head(discovered)), LAMBDA r :
             IF r.exc # None THEN [exc |-> r.exc, skills |-> acc]
             ELSE IF r.parsed = None \/ r.parsed[1].name \in DOMAIN acc
                  THEN FileSkillsLoop(f, ord, Tail(discovered), extensions, acc)
                  ELSE FileSkillsLoop(f, ord, Tail(discovered), extensions,
                           acc @@ (r.parsed[1].name :>
                               FileEntry(FileSkill(f, ord, r.parsed[1], Head(discovered),
                                                   extensions)))))

\* the registry that holds no skill
NoSkills == [n \in {} |-> FileEntry(NoSkill)]

_discover_file_skills(f, ord, skill_paths, extensions) ==
    FileSkillsLoop(f, ord, _discover_skill_directories(f, ord, skill_paths), extensions, NoSkills)

\* a loop in which a later code-defined skill replaces an earlier entry
CodeSkillsLoopLastWins(objs, i, result) ==
    LET ok == {k \in i..Len(objs) :
                  _validate_skill_metadata(objs[k].name, objs[k].description) = None}
        names == DOMAIN result \cup {objs[k].name : k \in ok}
    IN  [n \in names |->
            IF \E k \in ok : objs[k].name = n
            THEN CodeEntry(CHOOSE k \in ok : objs[k].name = n
                                /\ \A j \in ok : objs[j].name = n => j <= k)
            ELSE result[n]]

\* the loop of _load_skills over the code-defined skills, from the i-th on
RECURSIVE CodeSkillsLoop(_, _, _)
CodeSkillsLoop(objs, i, result) ==
    IF i > Len(objs) THEN result
    ELSE IF _validate_skill_metadata(objs[i].name, objs[i].description) # None
              \/ objs[i].name \in DOMAIN result
         THEN CodeSkillsLoop(objs, i + 1, result)
         ELSE CodeSkillsLoop(objs, i + 1, result @@ (objs[i].name :> CodeEntry(i)))

\* _load_skills: [exc, skills]
_load_skills(f, ord, skill_paths, objs, extensions) ==
    With(_discover_file_skills(f, ord, skill_paths, extensions), LAMBDA files :
        IF files.exc # None THEN files
        ELSE [exc |-> None, skills |-> CodeSkillsLoop(objs, 1, files.skills)])

\* the skill object a registry entry refers to
Deref(entry) == IF entry.ref = 0 THEN entry.obj ELSE codeSkills[entry.ref]

\* self._skills as a dict of objects, the entries of reg referring to objs
SkillObjects(reg, objs) ==
    [n \in DOMAIN reg |-> IF reg[n].ref = 0 THEN reg[n].obj ELSE objs[reg[n].ref]]

-----------------------------------------------------------------------------
(* Resource reads *)

\* _read_file_skill_resource, lines 650-659: the paths, and whether the
\* target lies in the skill directory
ReadPaths(skillPath, resource_name) ==
    LET name == _normalize_resource_path(resource_name)
    IN  [name |-> name,
         full |-> NormPath(JoinPath(skillPath, name)),
         root |-> NormPath(skillPath)]

\* what a call of _read_file_skill_resource yields: the text it returns, or
\* the exception it raises and the condition that raised it
Returned(text) == [exc |-> None, why |-> "", ret |-> text]
Raised(type, why) == [exc |-> Some(type), why |-> why, ret |-> <<>>]

\* lines 652-659: the exception raised before the file system is looked
\* at, or None
LexicalCheck(skillPath, resource_name) ==
    IF skillPath = <<>> THEN Some(Raised("ValueError", "no path"))
    ELSE With(ReadPaths(skillPath, resource_name), LAMBDA p :
             IF ~_is_path_within_directory(p.full, p.root)
             THEN Some(Raised("ValueError", "outside"))
             ELSE None)

\* guards in another order: links are looked for before is_file() is asked
ReadFileSymlinkFirst(f, skillPath, resource_name) ==
    With(LexicalCheck(skillPath, resource_name), LAMBDA refused :
        IF refused # None THEN refused[1]
        ELSE With(ReadPaths(skillPath, resource_name), LAMBDA p :
             IF _has_symlink_in_path(f, p.full, p.root).val
             THEN Raised("ValueError", "symlink")
             ELSE IF ~IsFile(f, p.full)
             THEN Raised("ValueError", "not found")
             ELSE With(ReadText(f, p.full), LAMBDA r :
                      IF r.exc # None THEN Raised(r.exc[1], "read_text")
                      ELSE Returned(r.text))))

\* _read_file_skill_resource(skill, resource_name), run against one state of
\* the file system
_read_file_skill_resource(f, skillPath, resource_name) ==
    With(LexicalCheck(skillPath, resource_name), LAMBDA refused :
        IF refused # None THEN refused[1]
        ELSE With(ReadPaths(skillPath, resource_name), LAMBDA p :
             IF ~IsFile(f, p.full)
             THEN Raised("ValueError", "not found")
             ELSE IF _has_symlink_in_path(f, p.full, p.root).val
             THEN Raised("ValueError", "symlink")
             ELSE With(ReadText(f, p.full), LAMBDA r :
                      IF r.exc # None THEN Raised(r.exc[1], "read_text")
                      ELSE Returned(r.text))))

-----------------------------------------------------------------------------
(* The provider's two tools *)

\* html.escape(s, quote=True), character by character
XmlEscapeAtom(a) ==
    CASE a = "&"  -> "&amp;"
      [] a = "<"  -> "&lt;"
      [] a = ">"  -> "&gt;"
      [] a = "\"" -> "&quot;"
      [] a = "'"  -> "&#x27;"
      [] OTHER    -> a

xml_escape(s) == [i \in 1..Len(s) |-> XmlEscapeAtom(s[i])]

\* an element that carries a description attribute for every resource
ResourceElementDescribed(resource) ==
    <<"  <resource ", "name=\"">> \o xml_escape(resource.name) \o <<"\"">>
    \o <<" description=\"">>
    \o xml_escape(IF resource.description = None THEN <<>> ELSE resource.description[1])
    \o <<"\"", "/>">>

\* _create_resource_element (lines 775-788)
_create_resource_element(resource) ==
    <<"  <resource ", "name=\"">> \o xml_escape(resource.name) \o <<"\"">>
    \o (IF resource.description # None /\ resource.description[1] # <<>>
        THEN <<" description=\"">> \o xml_escape(resource.description[1]) \o <<"\"">>
        ELSE <<>>)
    \o <<"/>">>

RECURSIVE JoinLines(_)
JoinLines(ls) ==
    IF ls = <<>> THEN <<>>
    ELSE IF Len(ls) = 1 THEN Head(ls)
    ELSE Head(ls) \o <<"\n">> \o JoinLines(Tail(ls))

ErrorPrefix == <<"Error", ":">>

\* lines 281-295: the text of a code-defined skill, wrapped in XML
CodeSkillText(skill) ==
    <<"<name>">> \o xml_escape(skill.name) \o <<"</name>", "\n">>
    \o <<"<description>">> \o xml_escape(skill.description)
    \o <<"</description>", "\n", "\n", "<instructions>", "\n">>
    \o skill.content \o <<"\n", "</instructions>">>
    \o (IF skill.resources # <<>>
        THEN <<"\n", "\n", "<resources>", "\n">>
             \o JoinLines([i \in 1..Len(skill.resources) |->
                    _create_resource_element(skill.resources[i])])
             \o <<"\n", "</resources>">>
        ELSE <<>>)

\* a _load_skill that reads the manifest of a file-based skill again, from
\* the file system as it is when the tool is called
LoadSkillFromDisk(reg, skill_name) ==
    IF EmptyOrBlank(skill_name) \/ skill_name \notin DOMAIN reg
    THEN [ret |-> ErrorPrefix, why |-> "skill not found", exc |-> None]
    ELSE With(Deref(reg[skill_name]), LAMBDA skill :
             [ret |-> IF skill.path # <<>>
                      THEN ReadText(fs, JoinPath(skill.path, <<SKILL_FILE_NAME>>)).text
                      ELSE CodeSkillText(skill),
              why |-> "ok", exc |-> None])

\* a _load_skill that wraps every skill, file-based ones too
LoadSkillAlwaysWrapped(reg, skill_name) ==
    IF EmptyOrBlank(skill_name) \/ skill_name \notin DOMAIN reg
    THEN [ret |-> ErrorPrefix, why |-> "skill not found", exc |-> None]
    ELSE [ret |-> CodeSkillText(Deref(reg[skill_name])), why |-> "ok", exc |-> None]

\* AgentSkillsProvider._load_skill: the string returned and, beside it, the
\* branch that returned it
_load_skill(reg, skill_name) ==
    IF EmptyOrBlank(skill_name)
    THEN [ret |-> ErrorPrefix \o <<" Skill name cannot be empty.">>, why |-> "skill name empty", exc |-> None]
    ELSE IF skill_name \notin DOMAIN reg
    THEN [ret |-> ErrorPrefix \o <<" Skill '">> \o skill_name \o <<"' not found.">>,
          why |-> "skill not found", exc |-> None]
    ELSE With(Deref(reg[skill_name]), LAMBDA skill :
             [ret |-> IF skill.path # <<>> THEN skill.content ELSE CodeSkillText(skill),
              why |-> "ok", exc |-> None])

\* str(x) of what a producer returned
PyStr(value) ==
    CASE value.t = "str"  -> value.v
      [] value.t = "int"  -> value.v
      [] value.t = "None" -> <<"None">>

\* a lookup that compares the names as they are
FindResourceExact(skill, resource_name) ==
    LET hits == {i \in 1..Len(skill.resources) : skill.resources[i].name = resource_name}
    IN  IF hits = {} THEN 0 ELSE CHOOSE i \in hits : \A j \in hits : i <= j

\* lines 323-328: the first resource whose name equals resource_name when
\* both are lower-cased; 0 when there is none
FindResource(skill, resource_name) ==
    LET hits == {i \in 1..Len(skill.resources) :
                    Lower(skill.resources[i].name) = Lower(resource_name)}
    IN  IF hits = {} THEN 0 ELSE CHOOSE i \in hits : \A j \in hits : i <= j

\* the message without the class of the exception
FailedToReadPlain(type, skill_name, resource_name) ==
    <<"Error", ":", " Failed to read resource '">> \o resource_name
    \o <<"' from skill '">> \o skill_name \o <<"'.">>

\* lines 346-348: the string returned for an exception of class type
FailedToRead(type, skill_name, resource_name) ==
    <<"Error", " (", type, ")", ":", " Failed to read resource '">> \o resource_name
    \o <<"' from skill '">> \o skill_name \o <<"'.">>

\* a precheck that looks the skill up before it looks at the resource name
ReadPrecheckSkillFirst(reg, skill_name, resource_name) ==
    IF EmptyOrBlank(skill_name)
    THEN Some([ret |-> ErrorPrefix \o <<" Skill name cannot be empty.">>,
               why |-> "skill name empty", exc |-> None])
    ELSE IF skill_name \notin DOMAIN reg
    THEN Some([ret |-> ErrorPrefix \o <<" Skill '">> \o skill_name \o <<"' not found.">>,
               why |-> "skill not found", exc |-> None])
    ELSE IF EmptyOrBlank(resource_name)
    THEN Some([ret |-> ErrorPrefix \o <<" Resource name cannot be empty.">>,
               why |-> "resource name empty", exc |-> None])
    ELSE IF FindResource(Deref(reg[skill_name]), resource_name) = 0
    THEN Some([ret |-> ErrorPrefix \o <<" Resource '">> \o resource_name
                       \o <<"' not found in skill '">> \o skill_name \o <<"'.">>,
               why |-> "resource not found", exc |-> None])
    ELSE None

\* a precheck that answers an unknown resource like an unknown skill
ReadPrecheckOneMessage(reg, skill_name, resource_name) ==
    IF EmptyOrBlank(skill_name)
    THEN Some([ret |-> ErrorPrefix \o <<" Skill name cannot be empty.">>,
               why |-> "skill name empty", exc |-> None])
    ELSE IF EmptyOrBlank(resource_name)
    THEN Some([ret |-> ErrorPrefix \o <<" Resource name cannot be empty.">>,
               why |-> "resource name empty", exc |-> None])
    ELSE IF skill_name \notin DOMAIN reg
    THEN Some([ret |-> ErrorPrefix \o <<" Not found.">>,
               why |-> "skill not found", exc |-> None])
    ELSE IF FindResource(Deref(reg[skill_name]), resource_name) = 0
    THEN Some([ret |-> ErrorPrefix \o <<" Not found.">>,
               why |-> "resource not found", exc |-> None])
    ELSE None

\* lines 312-331: the string returned before any resource is read, or None
\* when the resource was found
ReadPrecheck(reg, skill_name, resource_name) ==
    IF EmptyOrBlank(skill_name)
    THEN Some([ret |-> ErrorPrefix \o <<" Skill name cannot be empty.">>,
               why |-> "skill name empty", exc |-> None])
    ELSE IF EmptyOrBlank(resource_name)
    THEN Some([ret |-> ErrorPrefix \o <<" Resource name cannot be empty.">>,
               why |-> "resource name empty", exc |-> None])
    ELSE IF skill_name \notin DOMAIN reg
    THEN Some([ret |-> ErrorPrefix \o <<" Skill '">> \o skill_name \o <<"' not found.">>,
               why |-> "skill not found", exc |-> None])
    ELSE IF FindResource(Deref(reg[skill_name]), resource_name) = 0
    THEN Some([ret |-> ErrorPrefix \o <<" Resource '">> \o resource_name
                       \o <<"' not found in skill '">> \o skill_name \o <<"'.">>,
               why |-> "resource not found", exc |-> None])
    ELSE None

\* the resource that lines 323-328 find
FoundResource(reg, skill_name, resource_name) ==
    LET skill == Deref(reg[skill_name])
    IN  skill.resources[FindResource(skill, resource_name)]

\* a call that takes str() of the coroutine an asynchronous function returns
CallFunctionNoAwait(f, prod, fn) ==
    IF fn.kind = "reader"
    THEN _read_file_skill_resource(f, fn.spath, fn.rn)
    ELSE IF fn.kind = "async"
    THEN Returned(<<"<coroutine object>">>)
    ELSE IF prod[fn.id].exc # None
         THEN Raised(prod[fn.id].exc[1], "producer")
         ELSE Returned(PyStr(prod[fn.id].value))

\* calling resource.function: what it returns (as str(result)) or raises
CallFunction(f, prod, fn) ==
    IF fn.kind = "reader"
    THEN _read_file_skill_resource(f, fn.spath, fn.rn)
    ELSE IF prod[fn.id].exc # None
         THEN Raised(prod[fn.id].exc[1], "producer")
         ELSE Returned(PyStr(prod[fn.id].value))

\* the exception classes of the model; each derives from Exception
ExceptionClasses ==
    {"ValueError", "RuntimeError", "UnicodeDecodeError"} \cup OSErrors

\* a try block that handles ValueError only
ReadOutcomeValueErrorOnly(r, skill_name, resource_name) ==
    IF r.exc = None THEN [ret |-> r.ret, why |-> "ok", exc |-> None]
    ELSE IF r.exc[1] = "ValueError"
    THEN [ret |-> FailedToRead(r.exc[1], skill_name, resource_name),
          why |-> r.why, exc |-> None]
    ELSE [ret |-> <<>>, why |-> r.why, exc |-> r.exc]

\* lines 333-348: the outcome of the try block for the call's result r:
\* [ret, why, exc], exc being the exception that leaves the method
ReadOutcome(r, skill_name, resource_name) ==
    IF r.exc = None THEN [ret |-> r.ret, why |-> "ok", exc |-> None]
    ELSE IF r.exc[1] \in ExceptionClasses
    THEN [ret |-> FailedToRead(r.exc[1], skill_name, resource_name),
          why |-> r.why, exc |-> None]
    ELSE [ret |-> <<>>, why |-> r.why, exc |-> r.exc]

\* AgentSkillsProvider._read_skill_resource, run without interruption
_read_skill_resource(f, prod, reg, skill_name, resource_name) ==
    With(ReadPrecheck(reg, skill_name, resource_name), LAMBDA pre :
        IF pre # None THEN pre[1]
        ELSE With(FoundResource(reg, skill_name, resource_name), LAMBDA resource :
                 IF resource.content # None
                 THEN [ret |-> resource.content[1], why |-> "ok", exc |-> None]
                 ELSE IF resource.function # None
                 THEN ReadOutcome(CallFunction(f, prod, resource.function[1]),
                                  skill_name, resource_name)
                 ELSE [ret |-> ErrorPrefix \o <<" Resource '">> \o resource.name
                               \o <<"' has no content or function.">>,
                       why |-> "no content or function", exc |-> None]))

-----------------------------------------------------------------------------
(* The advertisement: _create_instructions *)

\* the code points of the characters a registered name can hold, ascending
NameChars ==
    <<"\n", "-", "0", "1", "2", "3", "4", "5", "6", "7", "8", "9",
      "a", "b", "c", "d", "e", "f", "g", "h", "i", "j", "k", "l", "m",
      "n", "o", "p", "q", "r", "s", "t", "u", "v", "w", "x", "y", "z">>

\* ord(c)
Ord(c) == CHOOSE i \in 1..Len(NameChars) : NameChars[i] = c

\* s < t for two str, as sorted() compares its keys
StrLess(s, t) ==
    \E k \in 1..(Len(t)) :
        /\ k <= Len(s) + 1
        /\ \A j \in 1..(k - 1) : s[j] = t[j]
        /\ k = Len(s) + 1 \/ Ord(s[k]) < Ord(t[k])

\* the keys of the dict skills, descending by name
SortedDescending(skills) ==
    [k \in 1..Cardinality(DOMAIN skills) |->
        CHOOSE n \in DOMAIN skills :
            Cardinality({m \in DOMAIN skills :
                StrLess(skills[n].name, skills[m].name)}) = k - 1]

\* sorted(skills.values(), key=lambda s: s.name): the keys of the dict
\* skills (name -> AgentSkill) whose skills come first, second, ...
SortedByName(skills) ==
    [k \in 1..Cardinality(DOMAIN skills) |->
        CHOOSE n \in DOMAIN skills :
            Cardinality({m \in DOMAIN skills :
                StrLess(skills[m].name, skills[n].name)}) = k - 1]

\* lines 836-840: the four lines of one skill
SkillLines(skill) ==
    <<<<"  <skill>">>,
      <<"    <name>">> \o xml_escape(skill.name) \o <<"</name>">>,
      <<"    <description>">> \o xml_escape(skill.description) \o <<"</description>">>,
      <<"  </skill>">>>>

\* the text that replaces the placeholder: "\n".join(lines)
SkillsList(skills) ==
    JoinLines(Extend([k \in 1..Cardinality(DOMAIN skills) |->
                         SkillLines(skills[SortedByName(skills)[k]])], 1))

\* A template is a str whose braces are the characters "{" and "}"; the
\* text between two braces is one piece, as is each run of other text.
\* str.format(skills=value): [exc, text], exc the exception raised
FormatOk(text) == [exc |-> None, text |-> text]
FormatRaises(type) == [exc |-> Some(type), text |-> <<>>]

\* the text written so far, followed by what the rest of the template gives
Emit(piece, rest) ==
    IF rest.exc # None THEN rest ELSE FormatOk(piece \o rest.text)

\* the replacement field {field_name}
Field(field_name, value) ==
    IF field_name = "skills" THEN FormatOk(value)
    ELSE IF field_name \in Digits THEN FormatRaises("IndexError")
    ELSE FormatRaises("KeyError")

\* the format specification ".9" keeps the first 9 characters of a str: of
\* the probe "__PROBE__" all of it, of the skills list its first piece
\* "  <skill>"; both are one piece of 9 characters
Precision9(text) == IF text = <<>> THEN <<>> ELSE <<text[1]>>

RECURSIVE Format(_, _)
Format(template, value) ==
    IF template = <<>> THEN FormatOk(<<>>)
    ELSE IF Head(template) = "{"
    THEN IF Len(template) >= 2 /\ template[2] = "{"
         THEN Emit(<<"{">>, Format(SubSeq(template, 3, Len(template)), value))
         ELSE IF Len(template) >= 2 /\ template[2] = "}"
         THEN FormatRaises("IndexError")
         ELSE IF Len(template) >= 3 /\ template[3] = "}"
         THEN With(Field(template[2], value), LAMBDA field :
                  IF field.exc # None THEN field
                  ELSE Emit(field.text, Format(SubSeq(template, 4, Len(template)), value)))
         ELSE IF Len(template) >= 4 /\ template[3] = ":.9" /\ template[4] = "}"
         THEN With(Field(template[2], value), LAMBDA field :
                  IF field.exc # None THEN field
                  ELSE Emit(Precision9(field.text),
                            Format(SubSeq(template, 5, Len(template)), value)))
         ELSE FormatRaises("ValueError")
    ELSE IF Head(template) = "}"
    THEN IF Len(template) >= 2 /\ template[2] = "}"
         THEN Emit(<<"}">>, Format(SubSeq(template, 3, Len(template)), value))
         ELSE FormatRaises("ValueError")
    ELSE Emit(<<Head(template)>>, Format(Tail(template), value))

DEFAULT_SKILLS_INSTRUCTION_PROMPT ==
    <<"You have access to skills.", "\n", "<available_skills>", "\n",
      "{", "skills", "}",
      "\n", "</available_skills>", "\n", "Only load what is needed, when it is needed.">>

PROBE == "__PROBE__"

\* lines 812-829: the exception the validation of a custom template raises,
\* or None
TemplateRejected(prompt_template) ==
    With(Format(prompt_template, <<PROBE>>), LAMBDA result :
        IF result.exc # None THEN Some("ValueError")
        ELSE IF \A i \in 1..Len(result.text) : result.text[i] # PROBE THEN Some("ValueError")
        ELSE None)

\* lines 831-842: None for an empty registry, else the template filled in
Rendered(template, skills) ==
    IF DOMAIN skills = {} THEN [exc |-> None, val |-> None]
    ELSE With(Format(template, SkillsList(skills)), LAMBDA text :
             [exc |-> text.exc, val |-> IF text.exc = None THEN Some(text.text) ELSE None])

\* a _create_instructions that looks at the registry before the template
CreateInstructionsEmptyFirst(prompt_template, skills) ==
    IF DOMAIN skills = {} THEN [exc |-> None, val |-> None]
    ELSE IF prompt_template = None THEN Rendered(DEFAULT_SKILLS_INSTRUCTION_PROMPT, skills)
    ELSE IF TemplateRejected(prompt_template[1]) # None
    THEN [exc |-> TemplateRejected(prompt_template[1]), val |-> None]
    ELSE Rendered(prompt_template[1], skills)

\* _create_instructions: [exc, val], val being the text or None
_create_instructions(prompt_template, skills) ==
    IF prompt_template = None THEN Rendered(DEFAULT_SKILLS_INSTRUCTION_PROMPT, skills)
    ELSE IF TemplateRejected(prompt_template[1]) # None
    THEN [exc |-> TemplateRejected(prompt_template[1]), val |-> None]
    ELSE Rendered(prompt_template[1], skills)

\* _create_tools: the names of the two tools, in order
_create_tools == <<"load_skill", "read_skill_resource">>

-----------------------------------------------------------------------------
(* The world the provider runs in *)

\* skill names and descriptions, character by character
SA == <<"s", "-", "a">>
SC == <<"c">>
D1 == <<"A", " ", "t", "e", "s", "t", ".">>
D2 == <<"2", "n", "d">>

\* the text of a SKILL.md file
Manifest(name, description, body) ==
    <<"---", "\n", "name", ":", " ">> \o name \o <<"\n", "description", ":", " ">>
    \o description \o <<"\n", "---", "\n", body>>

P(parts) == AsPosix(TRUE, parts)

R1 == <<"w", "r1">>
R2 == <<"w", "r2">>
SkillA == <<"w", "r1", "skill-a">>
Evil == <<"w", "r1", "skill-a-evil">>
L2 == SkillA \o <<"l2">>
L3 == L2 \o <<"l3">>
SkillB == <<"w", "r2", "skill-b">>

\* every name a directory of the model can hold, in one listing order
AllNames ==
    <<"SKILL.md", "doc.md", "refs", "FAQ.md", "secret.md", "l2", "l3",
      "skill-a", "skill-a-evil", "skill-b", "r1", "r2", "w">>

Reverse(s) == [i \in 1..Len(s) |-> s[Len(s) + 1 - i]]

\* the tree /w: root r1 holds the skill directory skill-a (manifest man,
\* resource doc.md, directory refs with FAQ.md, nested directories l2 and
\* l2/l3 with manifests l2m and l3m) beside its sibling skill-a-evil; r2 is
\* a second root, a directory holding skill-b or a link
Tree(man, doc, refs, l2m, l3m, r2) ==
    (<<"w">> :> DirNode)
    @@ (R1 :> DirNode)
    @@ (SkillA :> DirNode)
    @@ (SkillA \o <<"SKILL.md">> :> man)
    @@ (SkillA \o <<"doc.md">> :> doc)
    @@ (SkillA \o <<"refs">> :> refs)
    @@ (SkillA \o <<"refs", "FAQ.md">> :>
            IF refs.k = "dir" THEN FileNode(<<"FAQ content">>) ELSE NoNode)
    @@ (L2 :> DirNode)
    @@ (L2 \o <<"SKILL.md">> :> l2m)
    @@ (L3 :> DirNode)
    @@ (L3 \o <<"SKILL.md">> :> l3m)
    @@ (Evil :> DirNode)
    @@ (Evil \o <<"secret.md">> :> FileNode(<<"secret">>))
    @@ (Evil \o <<"FAQ.md">> :> FileNode(<<"evil FAQ">>))
    @@ (R2 :> r2)
    @@ (SkillB :> IF r2.k = "dir" THEN DirNode ELSE NoNode)
    @@ (SkillB \o <<"SKILL.md">> :>
            IF r2.k = "dir" THEN FileNode(Manifest(SA, D2, "Body B")) ELSE NoNode)

\* what doc.md and refs can be
DocNodes ==
    {FileNode(<<"doc text">>), FileNode(<<"doc text v2">>), NoNode,
     LinkNode(Evil \o <<"secret.md">>), LinkNode(<<"w", "gone">>),
     LockedNode(<<"doc text">>), BinaryNode}
RefsNodes == {DirNode, LinkNode(Evil)}

\* what a producer does when it is called
Value(t, v) == [t |-> t, v |-> v]
Returns(value) == [exc |-> None, value |-> value]
Raises(type) == [exc |-> Some(type), value |-> Value("None", <<>>)]
ProducerIds == {"p1", "p2"}
ProducerOutcomes(id) ==
    IF id = "p1" THEN {Returns(Value("str", <<"made">>)), Raises("RuntimeError")}
    ELSE {Returns(Value("int", <<"42">>)), Raises("ValueError")}

\* a code-defined skill with a static resource, a synchronous producer and
\* an asynchronous one
CodeSkillC ==
    AgentSkill(SC, <<"d">>, <<"Use C.">>,
        <<AgentSkillResource(<<"ref">>, Some(<<"R">>), Some(<<"static text">>), None),
          AgentSkillResource(<<"get-x">>, None, None, Some(CodeFn("sync", "p1"))),
          AgentSkillResource(<<"get-y">>, None, None, Some(CodeFn("async", "p2")))>>,
        None)

\* no call: besides what a call was asked and what it answered, a record
\* holds the arguments of a constructor (args) and the producers the call
\* invoked, in order (calls), and remembers the most recent read that ended
\* in the except clause, as <<skill, resource>> (failed), while reads and
\* changes of the world follow one another
NoCall == [op |-> "", skill |-> <<>>, resource |-> <<>>, ret |-> <<>>, exc |-> None, why |-> "",
           args |-> <<>>, calls |-> <<>>, failed |-> <<>>]

\* the record of a call that returned: r holds what it returned or raised
Call(op, skill_name, resource_name, r) ==
    [op |-> op, skill |-> skill_name, resource |-> resource_name,
     ret |-> r.ret, exc |-> r.exc, why |-> r.why, args |-> <<>>, calls |-> <<>>,
     failed |-> <<>>]
Idle == [pc |-> "idle", skill |-> <<>>, resource |-> <<>>, full |-> <<>>, root |-> <<>>]

\* the provider object before __init__ has run
Unbuilt == [skills |-> NoSkills, instructions |-> None, tools |-> <<>>]

\* a SessionContext nothing was added to
EmptyContext == [instructions |-> <<>>, tools |-> <<>>]

\* a coroutine slot of the event loop, free, and the loop with every slot free
IdleTask == [pc |-> "idle", skill |-> <<>>, resource |-> <<>>, fn |-> CodeFn("", "")]
NoTasks == [t \in 1..MaxTasks |-> IdleTask]

\* before the constructor runs: one valid file-based skill whose resources
\* are regular files, links or missing, and one code-defined skill; the
\* manifest is plain, or begins with a byte order mark and quotes its
\* description
Init ==
    /\ phase = "Uninitialized"
    /\ \E doc \in {FileNode(<<"doc text">>), LinkNode(Evil \o <<"secret.md">>),
                    LinkNode(<<"w", "gone">>)},
          refs \in RefsNodes, viaLink \in BOOLEAN :
          /\ fs = Tree(IF viaLink
                       THEN FileNode(<<BOM>> \o Manifest(SA, <<"'">> \o D1 \o <<"'">>, "Body A"))
                       ELSE FileNode(Manifest(SA, D1, "Body A")),
                       doc, refs, NoNode, NoNode,
                       IF viaLink THEN LinkNode(SkillA) ELSE NoNode)
          /\ args = [skill_paths |-> IF viaLink THEN <<P(R2)>> ELSE <<P(R1)>>,
                     resource_extensions |-> DEFAULT_RESOURCE_EXTENSIONS,
                     instruction_template |-> None]
    /\ iterOrder = AllNames
    /\ producers = [id \in ProducerIds |->
                        CHOOSE o \in ProducerOutcomes(id) : o.exc = None]
    /\ codeSkills = <<CodeSkillC>>
    /\ provider = Unbuilt
    /\ context = EmptyContext
    /\ tasks = NoTasks
    /\ last = NoCall
    /\ rd = Idle

-----------------------------------------------------------------------------
(* Operations *)

\* AgentSkillsProvider.__init__: builds the registry, or lets the exception
\* of the build through
Constructed(r) ==
    /\ phase' = IF r.exc = None THEN "Built" ELSE "Raised"
    /\ provider' = IF r.exc = None
                   THEN [skills |-> r.skills, instructions |-> r.instructions,
                         tools |-> _create_tools]
                   ELSE provider
    /\ last' = [NoCall EXCEPT !.op = "__init__", !.exc = r.exc]

\* lines 184-188: [exc, skills, instructions]; an exception of _load_skills
\* or of _create_instructions leaves the constructor.  resource_extensions
\* is a set here, the empty set standing for None and for an empty tuple:
\* "resource_extensions or DEFAULT_RESOURCE_EXTENSIONS"
Build(f, ord, a, objs) ==
    With(_load_skills(f, ord, a.skill_paths, objs,
                      IF a.resource_extensions = {} THEN DEFAULT_RESOURCE_EXTENSIONS
                      ELSE a.resource_extensions), LAMBDA r :
        IF r.exc # None
        THEN [exc |-> r.exc, skills |-> r.skills, instructions |-> None]
        ELSE With(_create_instructions(a.instruction_template, SkillObjects(r.skills, objs)),
                  LAMBDA text :
                      [exc |-> text.exc, skills |-> r.skills, instructions |-> text.val]))

Construct ==
    /\ phase = "Uninitialized"
    /\ Constructed(Build(fs, iterOrder, args, codeSkills))
    /\ UNCHANGED <<fs, iterOrder, producers, args, codeSkills, context, tasks, rd>>

\* dict.pop in place of dict.get
SkillsAfterPop(reg, skill_name) == [n \in DOMAIN reg \ {skill_name} |-> reg[n]]

\* self._skills after self._skills.get(skill_name) (lines 271 and 318)
SkillsAfterGet(reg, skill_name) == reg

\* a before_run without the check for an empty registry
before_runUnconditional(p, ctx) ==
    [instructions |-> IF p.instructions # None /\ p.instructions[1] # <<>>
                      THEN Append(ctx.instructions, p.instructions[1])
                      ELSE ctx.instructions,
     tools |-> ctx.tools \o _create_tools]

\* before_run (lines 190-215): the context after the call; SessionContext's
\* extend_instructions and extend_tools append to its two lists
before_run(p, ctx) ==
    IF DOMAIN p.skills = {} THEN ctx
    ELSE [instructions |-> IF p.instructions # None /\ p.instructions[1] # <<>>
                           THEN Append(ctx.instructions, p.instructions[1])
                           ELSE ctx.instructions,
          tools |-> ctx.tools \o p.tools]

\* the framework calls before_run with the context of a new run
BeforeRun ==
    /\ phase = "Built"
    /\ rd.pc = "idle"
    /\ context' = before_run(provider, EmptyContext)
    /\ last' = [NoCall EXCEPT !.op = "before_run"]
    /\ UNCHANGED <<phase, fs, iterOrder, producers, args, codeSkills, tasks, provider, rd>>

\* the arguments callers pass to the two tools
SkillNameInputs == {SA, SC, <<>>, <<" ">>, <<"z">>}
ReadInputs ==
    ({SA} \X {<<"doc.md">>, <<".", "/", "doc.md">>, <<"refs", "/", "FAQ.md">>,
              <<".", "/", "refs", "/", "FAQ.md">>, <<"refs", "\\", "FAQ.md">>,
              <<"REFS", "/", "faq.md">>, <<"missing.md">>, <<>>, <<" ">>})
    \cup ({SC} \X {<<"ref">>, <<"get-x">>, <<"get-y">>, <<"doc.md">>})
    \cup ({<<>>, <<" ">>, <<"z">>} \X {<<"doc.md">>, <<>>})

\* a call of the load_skill tool
LoadSkill(skill_name) ==
    /\ phase = "Built"
    /\ rd.pc = "idle"
    /\ last' = Call("load_skill", skill_name, <<>>, _load_skill(provider.skills, skill_name))
    /\ provider' = [provider EXCEPT !.skills = SkillsAfterGet(@, skill_name)]
    /\ UNCHANGED <<phase, fs, iterOrder, producers, args, codeSkills, context, tasks, rd>>

\* the function of the resource found is called twice
InvokedTwice(reg, skill_name, resource_name) ==
    IF ReadPrecheck(reg, skill_name, resource_name) # None THEN <<>>
    ELSE With(FoundResource(reg, skill_name, resource_name), LAMBDA resource :
             IF resource.content # None \/ resource.function = None THEN <<>>
             ELSE <<resource.function[1], resource.function[1]>>)

\* lines 335-343: the callables the call invokes, in order: none when the
\* call ends before the try block or the resource has static content, else
\* resource.function, awaited or called directly
Invoked(reg, skill_name, resource_name) ==
    IF ReadPrecheck(reg, skill_name, resource_name) # None THEN <<>>
    ELSE With(FoundResource(reg, skill_name, resource_name), LAMBDA resource :
             IF resource.content # None \/ resource.function = None THEN <<>>
             ELSE <<resource.function[1]>>)

\* a provider that keeps what a file-backed resource returned and serves it
\* as static content from then on
SkillsAfterCachingRead(reg, skill_name, resource_name, r) ==
    IF r.why = "ok" /\ reg[skill_name].ref = 0
    THEN [reg EXCEPT ![skill_name].obj.resources[
                          FindResource(reg[skill_name].obj, resource_name)] =
                 [@ EXCEPT !.content = Some(r.ret), !.function = None]]
    ELSE reg

\* a provider that remembers the failure of a file-backed resource and
\* answers with it from then on
SkillsAfterFailedRead(reg, skill_name, resource_name, r) ==
    IF StartsWith(r.ret, <<"Error", " (">>) /\ reg[skill_name].ref = 0
    THEN [reg EXCEPT ![skill_name].obj.resources[
                          FindResource(reg[skill_name].obj, resource_name)] =
                 [@ EXCEPT !.content = Some(r.ret), !.function = None]]
    ELSE reg

\* self._skills after the try block of lines 333-348 returned r: neither
\* the result nor the exception is stored anywhere
SkillsAfterRead(reg, skill_name, resource_name, r) == reg

\* the call returns r
ReadReturned(skill_name, resource_name, r) ==
    /\ last' = [Call("read_skill_resource", skill_name, resource_name, r)
                   EXCEPT !.calls = Invoked(provider.skills, skill_name, resource_name),
                          !.failed = IF StartsWith(r.ret, <<"Error", " (">>)
                                     THEN <<skill_name, resource_name>>
                                     ELSE last.failed]
    /\ provider' = [provider EXCEPT !.skills =
                       SkillsAfterRead(SkillsAfterGet(@, skill_name),
                                       skill_name, resource_name, r)]

\* a call of the read_skill_resource tool that nothing interrupts
ReadSkillResource(skill_name, resource_name) ==
    /\ phase = "Built"
    /\ rd.pc = "idle"
    /\ ReadReturned(skill_name, resource_name,
                    _read_skill_resource(fs, producers, provider.skills,
                                         skill_name, resource_name))
    /\ UNCHANGED <<phase, fs, iterOrder, producers, args, codeSkills, context, tasks, rd>>

\* the names handed to _read_file_skill_resource directly
FileNameInputs ==
    {<<"doc.md">>, <<".", "/", "refs", "/", "FAQ.md">>, <<"refs", "\\", "FAQ.md">>,
     <<"..", "/", "skill-a-evil", "/", "secret.md">>,
     <<"..", "/", "skill-a-evil", "/", "nothing.md">>,
     <<"/", "w", "/", "r1", "/", "skill-a-evil", "/", "secret.md">>,
     <<"..">>, <<".">>, <<"refs">>, <<"missing.md">>,
     <<"refs", "/", "..", "/", "doc.md">>,
     <<"..", "/", "skill-a", "/", "doc.md">>,
     <<"..", "/", "..", "/", "..", "/", "..", "/", "w", "/", "r1", "/", "skill-a-evil", "/", "FAQ.md">>}

\* a direct call of the helper _read_file_skill_resource(skill, resource_name)
\* on a registered skill
ReadFileSkillResource(skill_name, resource_name) ==
    /\ phase = "Built"
    /\ rd.pc = "idle"
    /\ skill_name \in DOMAIN provider.skills
    /\ last' = Call("_read_file_skill_resource", skill_name, resource_name,
                    _read_file_skill_resource(fs, Deref(provider.skills[skill_name]).path,
                                              resource_name))
    /\ UNCHANGED <<phase, fs, iterOrder, producers, args, codeSkills, context, tasks, provider, rd>>

\* another process replaces, removes or rewrites doc.md
ChangeDoc(node) ==
    /\ fs[SkillA \o <<"doc.md">>] # node
    /\ fs' = [fs EXCEPT ![SkillA \o <<"doc.md">>] = node]
    /\ last' = [NoCall EXCEPT !.failed = last.failed]
    /\ UNCHANGED <<phase, iterOrder, producers, args, codeSkills, context, tasks, provider, rd>>

\* a producer starts to behave differently
ChangeProducer(id, outcome) ==
    /\ producers[id] # outcome
    /\ producers' = [producers EXCEPT ![id] = outcome]
    /\ last' = [NoCall EXCEPT !.failed = last.failed]
    /\ UNCHANGED <<phase, fs, iterOrder, args, codeSkills, context, tasks, provider, rd>>

\* the file system changes only between calls
Quiet == rd.pc = "idle"

Next ==
    \/ Construct
    \/ \E n \in SkillNameInputs : LoadSkill(n)
    \/ \E c \in ReadInputs : ReadSkillResource(c[1], c[2])
    \/ \E n \in {SA, SC}, rn \in FileNameInputs : ReadFileSkillResource(n, rn)
    \/ BeforeRun
    \/ \E node \in DocNodes : Quiet /\ ChangeDoc(node)
    \/ \E id \in ProducerIds : \E o \in ProducerOutcomes(id) : Quiet /\ ChangeProducer(id, o)

Spec == Init /\ [][Next]_vars

-----------------------------------------------------------------------------
(* Construction over many candidates *)

SeqsUpTo(S, n) == UNION {[1..k -> S] : k \in 0..n}

ML2 == FileNode(Manifest(<<"l", "2">>, D1, "Body L2"))
ML3 == FileNode(Manifest(<<"l", "3">>, D1, "Body L3"))

\* what skill-a/SKILL.md can be: a valid manifest, and manifests that are
\* invalid, unreadable or not text
ManifestNodes ==
    {FileNode(Manifest(SA, D1, "Body A")),
     FileNode(<<BOM>> \o Manifest(SA, <<"'">> \o D1 \o <<"'">>, "Body A")),
     FileNode(<<"No frontmatter here.">>),
     FileNode(Manifest(<<"B", "a", "d">>, D1, "Body A")),
     FileNode(Manifest(Rep("a", MAX_NAME_LENGTH + 1), D1, "Body A")),
     FileNode(<<"---", "\n", "name", ":", " ">> \o SA \o <<"\n", "---", "\n", "Body A">>),
     LockedNode(Manifest(SA, D1, "Body A")),
     BinaryNode}

\* code-defined skills, valid and invalid; AgentSkill.__init__ accepts each
CodeCandidates ==
    {AgentSkill(SC, <<"d">>, <<"Use C.">>, <<>>, None),
     AgentSkill(SC, <<"e">>, <<"Use C again.">>, <<>>, None),
     AgentSkill(SA, <<"f">>, <<"Code A.">>, <<>>, None),
     AgentSkill(<<"c", "\n">>, <<"d">>, <<"Newline.">>, <<>>, None),
     AgentSkill(<<"K">>, <<"d">>, <<"Upper.">>, <<>>, None),
     AgentSkill(Rep("a", MAX_NAME_LENGTH + 1), <<"d">>, <<"Long.">>, <<>>, None),
     AgentSkill(Rep("a", MAX_NAME_LENGTH), Rep("d", MAX_DESCRIPTION_LENGTH), <<"Edge.">>, <<>>, None),
     AgentSkill(<<"k">>, Rep("d", MAX_DESCRIPTION_LENGTH + 1), <<"Wordy.">>, <<>>, None)}

\* the code-defined skills handed over together with the roots
TreeCodeSkills ==
    {AgentSkill(SC, <<"d">>, <<"Use C.">>, <<>>, None),
     AgentSkill(SA, <<"f">>, <<"Code A.">>, <<>>, None)}

\* the skill_paths arguments: roots that exist, in both orders, a root
\* given relative to the working directory, roots above and below r1, and
\* roots that are empty, blank, missing, or a file
RootLists ==
    {<<P(R1)>>, <<P(R1), P(R2)>>, <<P(R2), P(R1)>>, <<<<"r1">>>>,
     <<P(<<"w">>)>>, <<P(SkillA)>>,
     <<<<>>, <<" ">>, P(<<"w", "nope">>), P(SkillA \o <<"SKILL.md">>)>>}

\* before the constructor runs, over many candidates: either the manifest
\* of skill-a and the code-defined skills vary, or the tree and the roots do
InitBuild ==
    /\ phase = "Uninitialized"
    /\ \/ /\ \E man \in ManifestNodes :
                fs = Tree(man, FileNode(<<"doc text">>), DirNode, ML2, NoNode, NoNode)
          /\ args = [skill_paths |-> <<P(R1)>>,
                     resource_extensions |-> DEFAULT_RESOURCE_EXTENSIONS,
                     instruction_template |-> None]
          /\ codeSkills \in SeqsUpTo(CodeCandidates, MaxCodeSkills)
          /\ iterOrder = AllNames
       \/ /\ \E l2m \in {ML2, NoNode}, l3m \in {ML3, NoNode},
                r2 \in {NoNode, DirNode, LinkNode(SkillA)} :
                fs = Tree(FileNode(Manifest(SA, D1, "Body A")),
                          LinkNode(Evil \o <<"secret.md">>), DirNode, l2m, l3m, r2)
          /\ \E roots \in RootLists :
                args = [skill_paths |-> roots,
                        resource_extensions |-> DEFAULT_RESOURCE_EXTENSIONS,
                     instruction_template |-> None]
          /\ codeSkills \in SeqsUpTo(TreeCodeSkills, MaxCodeSkills)
          /\ iterOrder \in {AllNames, Reverse(AllNames)}
    /\ producers = [id \in ProducerIds |->
                        CHOOSE o \in ProducerOutcomes(id) : o.exc = None]
    /\ provider = Unbuilt
    /\ context = EmptyContext
    /\ tasks = NoTasks
    /\ last = NoCall
    /\ rd = Idle

NextBuild == Construct \/ BeforeRun

SpecBuild == InitBuild /\ [][NextBuild]_vars

-----------------------------------------------------------------------------
(* A file-resource read, one file-system call at a time, while another      *)
(* process changes the skill directory                                      *)

RaceInputs == {<<SA, <<"doc.md">>>>, <<SA, <<"refs", "/", "FAQ.md">>>>}

\* the call of read_skill_resource returns what the try block yields for r
FinishRead(r) ==
    /\ last' = Call("read_skill_resource", rd.skill, rd.resource,
                    ReadOutcome(r, rd.skill, rd.resource))
    /\ rd' = Idle

\* the closure of the file resource runs lines 650-659 and goes on to the
\* file system calls
Entered(skill_name, resource_name, resource) ==
    /\ resource.content = None
    /\ resource.function # None
    /\ resource.function[1].kind = "reader"
    /\ LexicalCheck(resource.function[1].spath, resource.function[1].rn) = None
    /\ rd' = [pc |-> "is_file", skill |-> skill_name, resource |-> resource_name,
              full |-> ReadPaths(resource.function[1].spath, resource.function[1].rn).full,
              root |-> ReadPaths(resource.function[1].spath, resource.function[1].rn).root]

\* read_skill_resource finds a file resource and calls its closure, which
\* runs lines 650-659 of _read_file_skill_resource
BeginRead(skill_name, resource_name) ==
    /\ phase = "Built"
    /\ rd.pc = "idle"
    /\ ReadPrecheck(provider.skills, skill_name, resource_name) = None
    /\ Entered(skill_name, resource_name,
               FoundResource(provider.skills, skill_name, resource_name))
    /\ UNCHANGED <<phase, fs, iterOrder, producers, args, codeSkills, context, tasks, provider, last>>

\* lines 661-662: is_file()
CheckIsFile ==
    /\ rd.pc = "is_file"
    /\ IF IsFile(fs, rd.full)
       THEN rd' = [rd EXCEPT !.pc = "symlink"] /\ last' = last
       ELSE FinishRead(Raised("ValueError", "not found"))
    /\ UNCHANGED <<phase, fs, iterOrder, producers, args, codeSkills, context, tasks, provider>>

\* lines 664-665: _has_symlink_in_path
CheckSymlink ==
    /\ rd.pc = "symlink"
    /\ IF _has_symlink_in_path(fs, rd.full, rd.root).val
       THEN FinishRead(Raised("ValueError", "symlink"))
       ELSE rd' = [rd EXCEPT !.pc = "read_text"] /\ last' = last
    /\ UNCHANGED <<phase, fs, iterOrder, producers, args, codeSkills, context, tasks, provider>>

\* line 668: read_text follows whatever the path now leads to
DoReadText ==
    /\ rd.pc = "read_text"
    /\ FinishRead(With(ReadText(fs, rd.full), LAMBDA r :
                      IF r.exc # None THEN Raised(r.exc[1], "read_text")
                      ELSE Returned(r.text)))
    /\ UNCHANGED <<phase, fs, iterOrder, producers, args, codeSkills, context, tasks, provider>>

NextRace ==
    \/ Construct
    \/ \E c \in RaceInputs : BeginRead(c[1], c[2])
    \/ CheckIsFile
    \/ CheckSymlink
    \/ DoReadText
    \/ \E node \in DocNodes : ChangeDoc(node)

SpecRace == Init /\ [][NextRace]_vars

-----------------------------------------------------------------------------
(* Calls in flight at once: the coroutines of _read_skill_resource *)

\* a code-defined skill with a static resource and two asynchronous producers
CodeSkillAsync ==
    AgentSkill(SC, <<"d">>, <<"Use C.">>,
        <<AgentSkillResource(<<"ref">>, Some(<<"R">>), Some(<<"static text">>), None),
          AgentSkillResource(<<"get-x">>, None, None, Some(CodeFn("async", "p1"))),
          AgentSkillResource(<<"get-y">>, None, None, Some(CodeFn("async", "p2")))>>,
        None)

InitAsync ==
    /\ phase = "Uninitialized"
    /\ fs = Tree(FileNode(Manifest(SA, D1, "Body A")), FileNode(<<"doc text">>), DirNode,
                 NoNode, NoNode, NoNode)
    /\ args = [skill_paths |-> <<P(R1)>>,
               resource_extensions |-> DEFAULT_RESOURCE_EXTENSIONS,
               instruction_template |-> None]
    /\ iterOrder = AllNames
    /\ producers \in [ProducerIds -> UNION {ProducerOutcomes(id) : id \in ProducerIds}]
    /\ \A id \in ProducerIds : producers[id] \in ProducerOutcomes(id)
    /\ codeSkills = <<CodeSkillAsync>>
    /\ provider = Unbuilt
    /\ context = EmptyContext
    /\ tasks = NoTasks
    /\ last = NoCall
    /\ rd = Idle

\* lines 318-339: the call reaches "await resource.function()", the only
\* point where the coroutine gives up the event loop
Suspends(reg, skill_name, resource_name) ==
    /\ ReadPrecheck(reg, skill_name, resource_name) = None
    /\ With(FoundResource(reg, skill_name, resource_name), LAMBDA resource :
            /\ resource.content = None
            /\ resource.function # None
            /\ resource.function[1].kind = "async")

\* the frame of the coroutine in slot t: its own skill_name, resource_name
\* and resource
FrameOfLatest(t) ==
    tasks[CHOOSE u \in 1..MaxTasks :
              /\ tasks[u].pc = "awaiting"
              /\ \A v \in 1..MaxTasks : tasks[v].pc = "awaiting" => v <= u]
FrameOf(t) == tasks[t]

\* a call of read_skill_resource starts in slot t: it returns at once, or
\* suspends at line 340 with its locals in its frame
StartRead(t, skill_name, resource_name) ==
    /\ phase = "Built"
    /\ tasks[t].pc = "idle"
    /\ IF Suspends(provider.skills, skill_name, resource_name)
       THEN /\ tasks' = [tasks EXCEPT ![t] =
                           [pc |-> "awaiting", skill |-> skill_name,
                            resource |-> resource_name,
                            fn |-> FoundResource(provider.skills, skill_name,
                                                 resource_name).function[1]]]
            /\ UNCHANGED last
       ELSE /\ last' = Call("read_skill_resource", skill_name, resource_name,
                            _read_skill_resource(fs, producers, provider.skills,
                                                 skill_name, resource_name))
            /\ UNCHANGED tasks
    /\ provider' = [provider EXCEPT !.skills = SkillsAfterGet(@, skill_name)]
    /\ UNCHANGED <<phase, fs, iterOrder, producers, args, codeSkills, context, rd>>

\* lines 340-348: the awaited producer finishes and the call in slot t
\* returns str(result) or the error string
Resumed(t, frame) ==
    /\ last' = Call("read_skill_resource", tasks[t].skill, tasks[t].resource,
                    ReadOutcome(CallFunction(fs, producers, frame.fn),
                                frame.skill, frame.resource))
    /\ tasks' = [tasks EXCEPT ![t] = IdleTask]

Resume(t) ==
    /\ tasks[t].pc = "awaiting"
    /\ Resumed(t, FrameOf(t))
    /\ UNCHANGED <<phase, fs, iterOrder, producers, args, codeSkills, context, provider, rd>>

AsyncInputs ==
    ({SC} \X {<<"ref">>, <<"get-x">>, <<"GET-Y">>, <<"get-y">>, <<"nope">>})
    \cup {<<SA, <<"doc.md">>>>, <<<<"z">>, <<"get-x">>>>}

NextAsync ==
    \/ Construct
    \/ \E t \in 1..MaxTasks : \E c \in AsyncInputs : StartRead(t, c[1], c[2])
    \/ \E t \in 1..MaxTasks : Resume(t)
    \/ \E n \in {SA, SC, <<"z">>} : LoadSkill(n)
    \/ BeforeRun
    \/ \E id \in ProducerIds : \E o \in ProducerOutcomes(id) : ChangeProducer(id, o)

SpecAsync == InitAsync /\ [][NextAsync]_vars

-----------------------------------------------------------------------------
(* A catalogue of code-defined skills and templates, served by the tools *)

\* code-defined skills: without resources and with a description full of
\* markup; with three resources, two of them named alike but for case, one
\* with an empty description; with one resource; and named like skill-a
CatalogSkills ==
    {AgentSkill(<<"a">>, <<"x", "<", "y", ">", "&", "'", "\"">>, <<"Use A.">>, <<>>, None),
     AgentSkill(<<"b">>, <<"d">>, <<"Use B.">>,
        <<AgentSkillResource(<<"faq.md">>, Some(<<"a", "&", "b">>), Some(<<"first">>), None),
          AgentSkillResource(<<"get-x">>, Some(<<>>), None, Some(CodeFn("sync", "p1"))),
          AgentSkillResource(<<"FAQ.md">>, None, Some(<<"second">>), None)>>,
        None),
     AgentSkill(<<"a", "-", "1">>, <<"d", "2">>, <<"Use A1.">>,
        <<AgentSkillResource(<<"A">>, Some(<<"\"", "q", "\"">>), Some(<<"upper">>), None)>>,
        None),
     AgentSkill(SA, <<"f">>, <<"Code A.">>, <<>>, None)}

\* the instruction_template arguments: none, three templates with the
\* placeholder, and templates without it, with another field, with a
\* positional field, malformed, and with the probe's text in place of the
\* placeholder
CatalogTemplates ==
    {None,
     Some(<<"Skills:", "\n", "{", "skills", "}">>),
     Some(<<"{", "{", "x", "}", "}", " ", "{", "skills", "}">>),
     Some(<<"{", "skills", ":.9", "}">>),
     Some(<<"no placeholder">>),
     Some(<<"{", "other", "}">>),
     Some(<<"{", "0", "}">>),
     Some(<<"{", "}">>),
     Some(<<"{", "skills">>),
     Some(<<"up to ", "}">>),
     Some(<<PROBE, " only">>)}

InitCatalog ==
    /\ phase = "Uninitialized"
    /\ fs = Tree(FileNode(Manifest(SA, D1, "Body A")), FileNode(<<"doc text">>), DirNode,
                 NoNode, NoNode, NoNode)
    /\ \E roots \in {<<>>, <<P(R1)>>}, template \in CatalogTemplates :
          args = [skill_paths |-> roots,
                  resource_extensions |-> DEFAULT_RESOURCE_EXTENSIONS,
                  instruction_template |-> template]
    /\ iterOrder = AllNames
    /\ producers = [id \in ProducerIds |->
                        CHOOSE o \in ProducerOutcomes(id) : o.exc = None]
    /\ codeSkills \in SeqsUpTo(CatalogSkills, MaxCodeSkills)
    /\ provider = Unbuilt
    /\ context = EmptyContext
    /\ tasks = NoTasks
    /\ last = NoCall
    /\ rd = Idle

\* the arguments callers pass to the two tools
CatalogLoads == {<<"a">>, <<"b">>, <<"a", "-", "1">>, SA, <<"A">>, <<>>}
CatalogReads ==
    ({<<"b">>} \X {<<"faq.md">>, <<"FAQ.md">>, <<"FAQ.MD">>, <<"get-x">>, <<"nope">>})
    \cup ({<<"a", "-", "1">>} \X {<<"A">>, <<"a">>})
    \cup ({SA} \X {<<"doc.md">>, <<"refs", "/", "FAQ.md">>, <<"REFS", "/", "faq.md">>})
    \cup {<<<<"A", "-", "1">>, <<"A">>>>, <<<<"a">>, <<"a">>>>}

NextCatalog ==
    \/ Construct
    \/ \E n \in CatalogLoads : LoadSkill(n)
    \/ \E c \in CatalogReads : ReadSkillResource(c[1], c[2])
    \/ BeforeRun

SpecCatalog == InitCatalog /\ [][NextCatalog]_vars

-----------------------------------------------------------------------------------------------------------------------------------------------------------------------------------------------------------------------------
(* The manifest changes after the provider was built *)

\* what another process makes of skill-a/SKILL.md: another description and
\* body, another name, text without frontmatter, nothing
LaterManifests ==
    {FileNode(Manifest(SA, D2, "Body A v2")),
     FileNode(Manifest(<<"z">>, D1, "Body A")),
     FileNode(<<"No frontmatter here.">>),
     NoNode}

\* another process rewrites or removes the manifest of a served skill
ChangeManifest(node) ==
    /\ phase = "Built"
    /\ rd.pc = "idle"
    /\ fs[SkillA \o <<"SKILL.md">>] # node
    /\ fs' = [fs EXCEPT ![SkillA \o <<"SKILL.md">>] = node]
    /\ last' = [NoCall EXCEPT !.failed = last.failed]
    /\ UNCHANGED <<phase, iterOrder, producers, args, codeSkills, context, tasks, provider, rd>>

NextSnapshot ==
    \/ Construct
    \/ \E n \in {SA, <<"z">>} : LoadSkill(n)
    \/ \E rn \in {<<"doc.md">>, <<"refs", "/", "FAQ.md">>} : ReadSkillResource(SA, rn)
    \/ BeforeRun
    \/ \E node \in DocNodes : ChangeDoc(node)
    \/ \E node \in LaterManifests : ChangeManifest(node)

SpecSnapshot == Init /\ [][NextSnapshot]_vars

-----
(* A skill directory of many files and a configured list of extensions *)

\* files beside doc.md and refs: an upper-case extension, an extension
\* outside the default list, the manifest's name in lower case, a file three
\* directories down
ExtraFiles ==
    {SkillA \o <<"FAQ.MD">>, SkillA \o <<"data.bin">>, SkillA \o <<"skill.md">>,
     L3 \o <<"doc.md">>}

FileNames == AllNames \o <<"FAQ.MD", "data.bin", "skill.md">>

\* the resource_extensions arguments: none, the default, an upper-case
\* spelling, an extension outside the default list
ExtensionLists == {{}, DEFAULT_RESOURCE_EXTENSIONS, {".MD"}, {".bin", ".md"}}

InitFiles ==
    /\ phase = "Uninitialized"
    /\ \E doc \in {FileNode(<<"doc text">>), NoNode, LinkNode(Evil \o <<"secret.md">>),
                    LinkNode(SkillA \o <<"refs", "FAQ.md">>), DirNode},
          refs \in RefsNodes, present \in SUBSET ExtraFiles :
          fs = Tree(FileNode(Manifest(SA, D1, "Body A")), doc, refs, ML2, NoNode, NoNode)
               @@ [path \in ExtraFiles |->
                      IF path \in present THEN FileNode(<<"extra">>) ELSE NoNode]
    /\ \E roots \in {<<P(R1)>>, <<P(SkillA)>>}, extensions \in ExtensionLists :
          args = [skill_paths |-> roots,
                  resource_extensions |-> extensions,
                  instruction_template |-> None]
    /\ iterOrder \in {FileNames, Reverse(FileNames)}
    /\ producers = [id \in ProducerIds |->
                        CHOOSE o \in ProducerOutcomes(id) : o.exc = None]
    /\ codeSkills = <<>>
    /\ provider = Unbuilt
    /\ context = EmptyContext
    /\ tasks = NoTasks
    /\ last = NoCall
    /\ rd = Idle

FileReads ==
    {SA} \X {<<"doc.md">>, <<"FAQ.MD">>, <<"data.bin">>, <<"l2", "/", "l3", "/", "doc.md">>}

NextFiles ==
    \/ Construct
    \/ LoadSkill(SA)
    \/ \E c \in FileReads : ReadSkillResource(c[1], c[2])

SpecFiles == InitFiles /\ [][NextFiles]_vars

-----
(* The integrator's skill objects: resources registered in program code *)

\* AgentSkillResource(**a): [exc, why, ret], ret being the new object
NewResource(a) ==
    IF ResourceArgsRejected(a.name, a.content, a.function)
    THEN Raised("ValueError", "resource arguments")
    ELSE [exc |-> None, why |-> "ok",
          ret |-> AgentSkillResource(a.name, a.description, a.content, a.function)]

\* the arguments the integrator passes to AgentSkillResource: static
\* content, empty static content, a callable, neither, both, and names that
\* are empty or blank
ResourceArgs ==
    {[name |-> <<"ref">>, description |-> Some(<<"R">>), content |-> Some(<<"static">>),
      function |-> None],
     [name |-> <<"empty">>, description |-> None, content |-> Some(<<>>), function |-> None],
     [name |-> <<"fn">>, description |-> None, content |-> None,
      function |-> Some(CodeFn("sync", "p1"))],
     [name |-> <<"neither">>, description |-> None, content |-> None, function |-> None],
     [name |-> <<"both">>, description |-> None, content |-> Some(<<"static">>),
      function |-> Some(CodeFn("sync", "p1"))],
     [name |-> <<>>, description |-> None, content |-> Some(<<"static">>), function |-> None],
     [name |-> <<" ">>, description |-> None, content |-> None,
      function |-> Some(CodeFn("sync", "p1"))]}

\* the functions the integrator decorates: __name__, docstring, behaviour
Functions ==
    {[name |-> <<"get-x">>, doc |-> None, fn |-> CodeFn("sync", "p1")],
     [name |-> <<"get-y">>, doc |-> Some(<<"Reads y.">>), fn |-> CodeFn("async", "p2")]}

\* the keyword arguments of @skill.resource(...): none (the bare decorator),
\* a name and a description, a blank name
DecoratorKeywords ==
    {[name |-> None, description |-> None],
     [name |-> Some(<<"custom">>), description |-> Some(<<"Custom desc">>)],
     [name |-> Some(<<" ">>), description |-> None]}

\* AgentSkill.resource, lines 186-194: the arguments the decorator passes on
\* for the function f: "name or f.__name__",
\* "description or (inspect.getdoc(f) or None)", function=f
DecoratorArgs(f, kw) ==
    [name |-> IF kw.name # None /\ kw.name[1] # <<>> THEN kw.name[1] ELSE f.name,
     description |-> IF kw.description # None /\ kw.description[1] # <<>>
                     THEN kw.description
                     ELSE IF f.doc # None /\ f.doc[1] # <<>> THEN f.doc ELSE None,
     content |-> None,
     function |-> Some(f.fn)]

\* skill.resources.append(r.ret) on the i-th skill object, unless the
\* constructor raised
Attached(i, op, a, r) ==
    /\ codeSkills' = [codeSkills EXCEPT ![i].resources =
                         IF r.exc = None THEN Append(@, r.ret) ELSE @]
    /\ last' = [Call(op, codeSkills[i].name, a.name, r) EXCEPT !.args = a]
    /\ UNCHANGED <<phase, fs, iterOrder, producers, args, context, tasks, provider, rd>>

\* the integrator runs skill.resources.append(AgentSkillResource(**a)),
\* before or after it built the provider
AttachResource(i, a) ==
    /\ phase \in {"Uninitialized", "Built"}
    /\ Len(codeSkills[i].resources) < MaxResources
    /\ Attached(i, "AgentSkillResource", a, NewResource(a))

\* the integrator decorates the function f with @skill.resource, bare or
\* with keywords
Decorate(i, f, kw) ==
    /\ phase \in {"Uninitialized", "Built"}
    /\ Len(codeSkills[i].resources) < MaxResources
    /\ Attached(i, "resource", DecoratorArgs(f, kw), NewResource(DecoratorArgs(f, kw)))

InitObjects ==
    /\ phase = "Uninitialized"
    /\ fs = Tree(FileNode(Manifest(SA, D1, "Body A")), FileNode(<<"doc text">>), DirNode,
                 NoNode, NoNode, NoNode)
    /\ args = [skill_paths |-> <<P(R1)>>,
               resource_extensions |-> DEFAULT_RESOURCE_EXTENSIONS,
               instruction_template |-> None]
    /\ iterOrder = AllNames
    /\ producers = [id \in ProducerIds |->
                        CHOOSE o \in ProducerOutcomes(id) : o.exc = None]
    /\ codeSkills = <<AgentSkill(SC, <<"d">>, <<"Use C.">>, <<>>, None)>>
    /\ provider = Unbuilt
    /\ context = EmptyContext
    /\ tasks = NoTasks
    /\ last = NoCall
    /\ rd = Idle

ObjectReads ==
    ({SC} \X {<<"ref">>, <<"empty">>, <<"fn">>, <<"get-x">>, <<"get-y">>, <<"custom">>})
    \cup {<<SA, <<"doc.md">>>>}

NextObjects ==
    \/ Construct
    \/ \E a \in ResourceArgs : AttachResource(1, a)
    \/ \E f \in Functions, kw \in DecoratorKeywords : Decorate(1, f, kw)
    \/ \E n \in {SA, SC} : LoadSkill(n)
    \/ \E c \in ObjectReads : ReadSkillResource(c[1], c[2])
    \/ \E node \in DocNodes : ChangeDoc(node)

SpecObjects == InitObjects /\ [][NextObjects]_vars

-----------------------------------------------------------------------------
(* Properties of the serving provider, under Spec *)

Range(s) == {s[i] : i \in 1..Len(s)}

\* the registered skill that the last call names
CalledSkill == Deref(provider.skills[last.skill])

\* the names of the resources registered for a skill
ResourceNames(skill) == {skill.resources[i].name : i \in 1..Len(skill.resources)}

\* where the name of the last call leads from the skill directory, "." and
\* ".." taken away component by component
CalledTarget ==
    CollapseDotDot(<<>>, AbsParts(JoinPath(CalledSkill.path, Replace(last.resource, "\\", "/"))))

\* target is the directory dir or lies below it, by whole components
Inside(target, dir) ==
    /\ Len(target) >= Len(dir)
    /\ \A i \in 1..Len(dir) : target[i] = dir[i]

\* a symbolic link lies on the way from the directory dir, itself left out,
\* down to dir/rel
LinkBelow(f, dir, rel) ==
    \E i \in 1..Len(rel) : LStat(f, dir \o SubSeq(rel, 1, i)).k = "link"

\* C1: for a skill that has a directory and any resource name,
\* _read_file_skill_resource returns content only when the normalised target
\* is the skill directory or a descendant of it by whole path components; a
\* name that leads anywhere else raises the outside-the-directory error and
\* nothing is read, whether or not the target exists.
C1_ContainedOrRejected ==
    (last.op = "_read_file_skill_resource" /\ CalledSkill.path # None) =>
        /\ last.exc = None => Inside(CalledTarget, AbsParts(CalledSkill.path))
        /\ ~Inside(CalledTarget, AbsParts(CalledSkill.path)) =>
              /\ last.exc = Some("ValueError")
              /\ last.why = "outside"
              /\ last.ret = <<>>

\* the sibling whose name has the skill directory's name as a prefix was
\* asked for, its file exists, and the call raised the outside error
C1_Witness ==
    /\ last.op = "_read_file_skill_resource"
    /\ last.skill = SA
    /\ last.resource = <<"..", "/", "skill-a-evil", "/", "secret.md">>
    /\ IsFile(fs, P(Evil \o <<"secret.md">>))
    /\ last.exc = Some("ValueError")
    /\ last.why = "outside"

\* the files a skill directory of the model holds besides its manifest
CandidateFiles == {<<"doc.md">>, <<"refs", "FAQ.md">>}

\* C2: a resource file (a path that leads to a regular file) that is a
\* symbolic link, or is reached through a symbolic link to a directory below
\* the skill root, is left out of the resource list at discovery while the
\* skill and its other resources are registered, and _read_file_skill_resource
\* rejects it with the symlink error; a regular file reached through regular
\* directories below the root is listed and never rejected by the symlink
\* check, also when the root itself is a symbolic link.
C2_SymlinksExcluded ==
    /\ (last.op = "__init__" /\ phase = "Built") =>
          /\ SA \in DOMAIN provider.skills
          /\ \A rel \in CandidateFiles :
                LET skill == Deref(provider.skills[SA])
                IN  IsFile(fs, P(AbsParts(skill.path) \o rel)) =>
                        (JoinSlash(rel) \in ResourceNames(skill)
                            <=> ~LinkBelow(fs, AbsParts(skill.path), rel))
    /\ (/\ last.op = "_read_file_skill_resource"
        /\ CalledSkill.path # None
        /\ Inside(CalledTarget, AbsParts(CalledSkill.path))
        /\ IsFile(fs, P(CalledTarget))) =>
          LET dir == AbsParts(CalledSkill.path)
              rel == SubSeq(CalledTarget, Len(dir) + 1, Len(CalledTarget))
          IN  IF LinkBelow(fs, dir, rel)
              THEN last.exc = Some("ValueError") /\ last.why = "symlink"
              ELSE last.why # "symlink"

\* FAQ.md, reached through the symbolic link refs, is not registered, doc.md
\* is, and a read of refs/FAQ.md raised the symlink error
C2_Witness ==
    /\ last.op = "_read_file_skill_resource"
    /\ last.skill = SA
    /\ last.resource = <<".", "/", "refs", "/", "FAQ.md">>
    /\ fs[SkillA \o <<"refs">>].k = "link"
    /\ last.exc = Some("ValueError")
    /\ last.why = "symlink"
    /\ ResourceNames(Deref(provider.skills[SA])) = {<<"doc.md">>}

\* C4: when the producer of a registered resource, synchronous or
\* asynchronous, or the read of its file raises an exception, the call of
\* read_skill_resource raises nothing and returns a string that names the
\* class of the exception, and the provider goes on serving calls (it is
\* built and no call is in progress, which is all the two tools wait for).
C4_ExceptionsReturned ==
    (/\ last.op = "read_skill_resource"
     /\ ReadPrecheck(provider.skills, last.skill, last.resource) = None
     /\ FoundResource(provider.skills, last.skill, last.resource).function # None) =>
        LET fn == FoundResource(provider.skills, last.skill, last.resource).function[1]
            r == CallFunction(fs, producers, fn)
        IN  r.exc # None =>
              /\ last.exc = None
              /\ r.exc[1] \in Range(last.ret)
              /\ phase = "Built"
              /\ Quiet

\* the asynchronous producer raised ValueError and the call returned a string
C4_Witness ==
    /\ last.op = "read_skill_resource"
    /\ last.resource = <<"get-y">>
    /\ producers["p2"] = Raises("ValueError")
    /\ last.exc = None
    /\ "ValueError" \in Range(last.ret)

\* the failures that the two tools find before any resource is read
LookupFailures ==
    {"skill name empty", "resource name empty", "skill not found",
     "resource not found", "no content or function"}

\* C5, as stated: every failure outcome of load_skill and read_skill_resource
\* is a returned string that starts with "Error:".
C5_ErrorColonPrefix ==
    (last.op \in {"load_skill", "read_skill_resource"} /\ last.why # "ok") =>
        /\ last.exc = None
        /\ StartsWith(last.ret, <<"Error", ":">>)

\* C5, amended: every failure outcome of the two tools is a returned string;
\* it starts with "Error:" when a name is empty or unknown, and with
\* "Error (<class>):", <class> being the class of the exception, when a
\* producer or the read of a file raised.
C5_ErrorPrefixes ==
    (last.op \in {"load_skill", "read_skill_resource"} /\ last.why # "ok") =>
        /\ last.exc = None
        /\ IF last.why \in LookupFailures
           THEN StartsWith(last.ret, <<"Error", ":">>)
           ELSE \E t \in ExceptionClasses : StartsWith(last.ret, <<"Error", " (", t, ")", ":">>)

\* the synchronous producer raised RuntimeError and the string returned
\* starts with "Error (RuntimeError):"
C5_Witness ==
    /\ last.op = "read_skill_resource"
    /\ last.resource = <<"get-x">>
    /\ last.why = "producer"
    /\ StartsWith(last.ret, <<"Error", " (", "RuntimeError", ")", ":">>)

\* C6: for a file-based skill with a registered resource p,
\* read_skill_resource(skill, "./" + p) returns what
\* read_skill_resource(skill, p) returns.
C6_DotSlashSameValue ==
    (/\ last.op = "read_skill_resource"
     /\ last.skill \in DOMAIN provider.skills
     /\ CalledSkill.path # None
     /\ StartsWith(last.resource, <<".", "/">>)
     /\ SubSeq(last.resource, 3, Len(last.resource)) \in ResourceNames(CalledSkill)) =>
        last.ret = _read_skill_resource(fs, producers, provider.skills, last.skill,
                       SubSeq(last.resource, 3, Len(last.resource))).ret

-----------------------------------------------------------------------------
(* Property of a read that races with a change of the directory, under      *)
(* SpecRace                                                                 *)

\* C3: with the file system changing while the provider runs, a resource
\* that was a regular file at discovery and is a symbolic link when a call
\* of read_skill_resource for it completes is not read through the link: the
\* call returns an error string.
C3_NeverReadThroughLink ==
    (/\ last.op = "read_skill_resource"
     /\ last.skill = SA
     /\ last.resource = <<"doc.md">>
     /\ fs[SkillA \o <<"doc.md">>].k = "link") =>
        StartsWith(last.ret, <<"Error">>)

-----------------------------------------------------------------------------
(* Properties of construction, under SpecBuild *)

\* the metadata rules as the specification words them
NameOk(name) ==
    /\ Len(name) \in 1..MAX_NAME_LENGTH
    /\ \A i \in 1..Len(name) : name[i] \in LowerLetters \cup Digits \cup {"-"}
    /\ name[1] # "-"
    /\ name[Len(name)] # "-"

DescriptionOk(description) ==
    /\ Len(description) <= MAX_DESCRIPTION_LENGTH
    /\ ~EmptyOrBlank(description)

\* the skill directories that discovery finds in the present tree
Discovered == _discover_skill_directories(fs, iterOrder, args.skill_paths)

\* what the manifest of the directory d declares: Some([name, description,
\* content]), or None when it cannot be read as text or is not valid
Declared(d) ==
    LET r == ReadText(fs, JoinPath(d, <<SKILL_FILE_NAME>>))
    IN  IF r.exc # None \/ _extract_frontmatter(r.text) = None THEN None
        ELSE Some([name |-> _extract_frontmatter(r.text)[1].name,
                   description |-> _extract_frontmatter(r.text)[1].description,
                   content |-> r.text])

\* C7: construction is best-effort: whatever the candidates are (manifests
\* without or with invalid frontmatter, unreadable or undecodable manifests,
\* code-defined skills with invalid metadata), the constructor raises nothing
\* and every valid candidate is in the registry.
C7_BestEffort ==
    last.op = "__init__" =>
        /\ phase = "Built"
        /\ last.exc = None
        /\ \A i \in 1..Len(Discovered) :
              Declared(Discovered[i]) # None =>
                  Declared(Discovered[i])[1].name \in DOMAIN provider.skills
        /\ \A i \in 1..Len(codeSkills) :
              (NameOk(codeSkills[i].name) /\ DescriptionOk(codeSkills[i].description)) =>
                  codeSkills[i].name \in DOMAIN provider.skills

\* C8: every registered skill, file-based or code-defined, has a name of at
\* most 64 characters made of lower-case letters, digits and hyphens that
\* neither starts nor ends with a hyphen, and a description of at most 1024
\* characters that is not blank.
C8_RegisteredMetadataValid ==
    \A n \in DOMAIN provider.skills :
        /\ NameOk(n)
        /\ Deref(provider.skills[n]).name = n
        /\ DescriptionOk(Deref(provider.skills[n]).description)

\* the manifests of the discovered directories, in discovery order
DeclaredAll == [i \in 1..Len(Discovered) |-> Declared(Discovered[i])]

\* the first of the manifests decl that is valid and declares the name n,
\* and the first code-defined skill that passes validation and has the name
\* n; 0 when there is none
FirstDir(decl, n) ==
    LET hits == {i \in 1..Len(decl) : decl[i] # None /\ decl[i][1].name = n}
    IN  IF hits = {} THEN 0 ELSE CHOOSE i \in hits : \A j \in hits : i <= j

FirstCode(n) ==
    LET hits == {i \in 1..Len(codeSkills) :
                    /\ codeSkills[i].name = n
                    /\ _validate_skill_metadata(n, codeSkills[i].description) = None}
    IN  IF hits = {} THEN 0 ELSE CHOOSE i \in hits : \A j \in hits : i <= j

\* C9: among valid candidates of one name the registry holds the first in
\* build order (file-based skills before code-defined ones, an earlier root
\* before a later one, code-defined skills in list order), and the entry's
\* description, content and resources are the winner's alone.
C9_FirstWins ==
    (last.op = "__init__" /\ phase = "Built") =>
        LET disc == Discovered
            decl == DeclaredAll
        IN  /\ \A n \in DOMAIN provider.skills :
                  LET entry == provider.skills[n]
                      first == FirstDir(decl, n)
                  IN  IF first # 0
                      THEN /\ entry.ref = 0
                           /\ entry.obj.path = disc[first]
                           /\ entry.obj.description = decl[first][1].description
                           /\ entry.obj.content = decl[first][1].content
                           /\ \A k \in 1..Len(entry.obj.resources) :
                                 entry.obj.resources[k].function[1].spath = disc[first]
                      ELSE /\ FirstCode(n) # 0
                           /\ entry.ref = FirstCode(n)
            /\ (args.skill_paths = <<P(R1), P(R2)>> /\ fs[R2].k = "dir") =>
                  /\ Deref(provider.skills[SA]).path = P(SkillA)
                  /\ Deref(provider.skills[SA]).description = D1
            /\ (args.skill_paths = <<P(R2), P(R1)>> /\ fs[R2].k = "dir") =>
                  /\ Deref(provider.skills[SA]).path = P(SkillB)
                  /\ Deref(provider.skills[SA]).description = D2

\* two roots hold a skill named s-a and so does the list of code-defined
\* skills: the one of the root listed first is registered
C9_Witness ==
    /\ last.op = "__init__"
    /\ phase = "Built"
    /\ args.skill_paths = <<P(R2), P(R1)>>
    /\ fs[R2].k = "dir"
    /\ \E i \in 1..Len(codeSkills) : codeSkills[i].name = SA
    /\ provider.skills[SA].ref = 0
    /\ provider.skills[SA].obj.description = D2

\* the roots that are not blank and lead to a directory
UsableRoots ==
    {args.skill_paths[i] : i \in {j \in 1..Len(args.skill_paths) :
        ~EmptyOrBlank(args.skill_paths[j]) /\ IsDir(fs, args.skill_paths[j])}}

\* the directories at depth 0, 1 or 2 below the directory root
WithinDepth(root) ==
    LET level1 == {JoinPath(root, <<a>>) : a \in Range(AllNames)}
        dirs1 == {d \in level1 : IsDir(fs, d)}
        level2 == UNION {{JoinPath(d, <<b>>) : b \in Range(AllNames)} : d \in dirs1}
    IN  {d \in {root} \cup level1 \cup level2 : IsDir(fs, d)}

\* C10: _discover_skill_directories returns a directory exactly when it
\* holds the manifest file and lies at depth 0, 1 or 2 below a root that is a
\* directory; a manifest at depth 3 is not discovered, and a root that is
\* empty, blank, missing or not a directory is skipped.
C10_DepthBound ==
    LET found == Range(Discovered)
    IN  /\ found =
              {AbsStr(d) : d \in {e \in UNION {WithinDepth(root) : root \in UsableRoots} :
                                      IsFile(fs, JoinPath(e, <<SKILL_FILE_NAME>>))}}
        /\ args.skill_paths = <<P(R1)>> => P(L3) \notin found
        /\ UsableRoots = {} => Discovered = <<>>
        /\ (last.op = "__init__" /\ phase = "Built") =>
              \A n \in DOMAIN provider.skills :
                  provider.skills[n].ref = 0 => provider.skills[n].obj.path \in found

\* the provider was built from the root r1: the manifest of skill-a/l2, at
\* depth 2, was found and that of skill-a/l2/l3, at depth 3, was not
C10_Witness ==
    /\ last.op = "__init__"
    /\ <<"l", "2">> \in DOMAIN provider.skills
    /\ <<"l", "3">> \notin DOMAIN provider.skills
    /\ args.skill_paths = <<P(R1)>>
    /\ IsFile(fs, P(L2 \o <<SKILL_FILE_NAME>>))
    /\ IsFile(fs, P(L3 \o <<SKILL_FILE_NAME>>))
    /\ P(L2) \in Range(Discovered)
    /\ P(L3) \notin Range(Discovered)

-----------------------------------------------------------------------------
(* The registry after construction, under Spec *)

\* what the registry holds: the registered names and, for each, the name,
\* description and content of its skill
Served ==
    [n \in DOMAIN provider.skills |->
        [name |-> Deref(provider.skills[n]).name,
         description |-> Deref(provider.skills[n]).description,
         content |-> Deref(provider.skills[n]).content]]

\* C11: once the provider is built, no step (a load_skill,
\* read_skill_resource or before_run call, successful or failing, or a change
\* of the environment) adds, removes or replaces a registered skill or
\* changes a registered skill's name, description or content.
C11_RegistryReadOnly == [][phase = "Built" => Served' = Served]_vars

\* before_run has run and a read_skill_resource call has just failed on a
\* built provider that still holds both skills
C11_Witness ==
    /\ phase = "Built"
    /\ context # EmptyContext
    /\ last.op = "read_skill_resource"
    /\ last.why \notin {"ok", ""}
    /\ DOMAIN provider.skills = {SA, SC}

-----------------------------------------------------------------------------
(* Calls in flight at once, under SpecAsync *)

\* C12: whatever calls of load_skill and read_skill_resource start, suspend
\* and complete in between, a call that has returned returned exactly what
\* the same call returns when it runs alone on the provider
C12_AsIfAlone ==
    /\ last.op = "read_skill_resource" =>
           /\ last.ret = _read_skill_resource(fs, producers, provider.skills,
                                              last.skill, last.resource).ret
           /\ last.exc = None
    /\ last.op = "load_skill" =>
           last.ret = _load_skill(provider.skills, last.skill).ret

\* a call that awaited its producer has returned while another call, started
\* on another resource, is still suspended
C12_Witness ==
    /\ last.op = "read_skill_resource"
    /\ last.resource = <<"get-x">>
    /\ last.why = "ok"
    /\ \E t \in 1..MaxTasks : tasks[t].pc = "awaiting" /\ tasks[t].resource = <<"get-y">>

-----------------------------------------------------------------------------
(* What load_skill returns, under Spec *)

\* the manifest of the called skill as it is on disk (no step of Spec
\* rewrites a SKILL.md after discovery read it)
CalledManifest == ReadText(fs, JoinPath(CalledSkill.path, <<SKILL_FILE_NAME>>)).text

FileSkillLoaded ==
    /\ last.op = "load_skill"
    /\ last.skill \in DOMAIN provider.skills
    /\ provider.skills[last.skill].ref = 0

\* C13: load_skill of a file-based skill returns the manifest text as
\* discovery read it, metadata block included and without XML wrapping; the
\* name and description parsed from the returned text are the registered
\* ones; and a second load_skill of the same skill returns the same text
C13_RawManifest ==
    /\ [](FileSkillLoaded =>
            /\ last.ret = CalledManifest
            /\ FrontmatterLines(last.ret) # None
            /\ "<name>" \notin Range(last.ret)
            /\ _extract_frontmatter(last.ret) # None
            /\ _extract_frontmatter(last.ret)[1].name = last.skill
            /\ _extract_frontmatter(last.ret)[1].name = CalledSkill.name
            /\ _extract_frontmatter(last.ret)[1].description = CalledSkill.description)
    /\ [][FileSkillLoaded /\ FileSkillLoaded' /\ last'.skill = last.skill
            => last'.ret = last.ret]_vars

\* the manifest that starts with a byte order mark and quotes its
\* description was loaded
C13_Witness ==
    /\ FileSkillLoaded
    /\ last.ret[1] = BOM
    /\ CalledSkill.description = D1
    /\ Len(last.ret) > Len(D1) + 2

-----------------------------------------------------------------------------
(* What the tools return for code-defined skills, under SpecCatalog *)

CodeSkillLoaded ==
    /\ last.op = "load_skill"
    /\ last.skill \in DOMAIN provider.skills
    /\ provider.skills[last.skill].ref # 0

\* the characters xml_escape replaces
MarkupChars == {"<", ">", "&", "'", "\""}

HasDescription(resource) ==
    resource.description # None /\ resource.description[1] # <<>>

\* the lines ls are the text load_skill builds for the code-defined skill
WrappedAs(ls, skill) ==
    /\ Len(ls) >= 6
    /\ ls[1] = <<"<name>">> \o xml_escape(skill.name) \o <<"</name>">>
    /\ ls[2] = <<"<description>">> \o xml_escape(skill.description) \o <<"</description>">>
    /\ \A i \in 2..(Len(ls[1]) - 1) : ls[1][i] \notin MarkupChars
    /\ \A i \in 2..(Len(ls[2]) - 1) : ls[2][i] \notin MarkupChars
    /\ ls[3] = <<>>
    /\ ls[4] = <<"<instructions>">>
    /\ ls[5] = skill.content
    /\ ls[6] = <<"</instructions>">>
    /\ (<<"<resources>">> \in Range(ls)) <=> (skill.resources # <<>>)
    /\ Len(SelectSeq(ls, LAMBDA l : l # <<>> /\ l[1] = "  <resource ")) = Len(skill.resources)
    /\ skill.resources = <<>> => Len(ls) = 6
    /\ skill.resources # <<>> =>
          /\ Len(ls) = 9 + Len(skill.resources)
          /\ ls[7] = <<>>
          /\ ls[8] = <<"<resources>">>
          /\ ls[Len(ls)] = <<"</resources>">>
          /\ \A i \in 1..Len(skill.resources) :
                /\ StartsWith(ls[8 + i], <<"  <resource ", "name=\"">>
                                         \o xml_escape(skill.resources[i].name) \o <<"\"">>)
                /\ ls[8 + i][Len(ls[8 + i])] = "/>"
                /\ (" description=\"" \in Range(ls[8 + i]))
                       <=> HasDescription(skill.resources[i])
                /\ HasDescription(skill.resources[i]) =>
                       ls[8 + i] = <<"  <resource ", "name=\"">>
                                   \o xml_escape(skill.resources[i].name)
                                   \o <<"\"", " description=\"">>
                                   \o xml_escape(skill.resources[i].description[1])
                                   \o <<"\"", "/>">>
                /\ ~HasDescription(skill.resources[i]) =>
                       ls[8 + i] = <<"  <resource ", "name=\"">>
                                   \o xml_escape(skill.resources[i].name)
                                   \o <<"\"", "/>">>
                /\ Range(xml_escape(skill.resources[i].name)) \cap MarkupChars = {}
                /\ HasDescription(skill.resources[i]) =>
                       Range(xml_escape(skill.resources[i].description[1]))
                           \cap MarkupChars = {}

\* C14: load_skill of a code-defined skill returns the escaped name, the
\* escaped description and the instructions body inside the fixed
\* <name>/<description>/<instructions> structure; a <resources> block
\* follows if and only if the skill has a resource, with one self-closing
\* <resource> element per resource in list order, and an element has a
\* description attribute if and only if its resource has a description
C14_CodeSkillXml ==
    CodeSkillLoaded => WrappedAs(SplitLines(last.ret), CalledSkill)

\* the skill with three resources, one described, was loaded
C14_Witness ==
    /\ CodeSkillLoaded
    /\ Len(CalledSkill.resources) = 3
    /\ HasDescription(CalledSkill.resources[1])
    /\ ~HasDescription(CalledSkill.resources[3])
    /\ <<"<resources>">> \in Range(SplitLines(last.ret))

\* the skill without resources, its description full of markup, was loaded
C14_WitnessNoResources ==
    /\ CodeSkillLoaded
    /\ CalledSkill.resources = <<>>
    /\ "&" \in Range(CalledSkill.description)

-----------------------------------------------------------------------------
(* Calls with names that lead nowhere, under Spec *)

\* which of the four conditions of read_skill_resource the arguments meet
\* first: 1 skill name empty or blank, 2 resource name empty or blank,
\* 3 unknown skill, 4 unknown resource; 0 when they meet none
Condition(skill_name, resource_name) ==
    IF EmptyOrBlank(skill_name) THEN 1
    ELSE IF EmptyOrBlank(resource_name) THEN 2
    ELSE IF skill_name \notin DOMAIN provider.skills THEN 3
    ELSE IF \A i \in 1..Len(Deref(provider.skills[skill_name]).resources) :
               Lower(Deref(provider.skills[skill_name]).resources[i].name)
                   # Lower(resource_name)
    THEN 4
    ELSE 0

\* a disk that holds nothing and producers that all raise
NoDisk == [p \in DOMAIN fs |-> NoNode]
NoProducers == [id \in ProducerIds |-> Raises("RuntimeError")]

\* C15: load_skill with an empty, blank or unknown name and
\* read_skill_resource with an empty or blank skill name, an empty or blank
\* resource name, an unknown skill or an unknown resource return, and never
\* raise, a string that starts with "Error:"; the messages of two calls of
\* read_skill_resource that meet different conditions differ; and the
\* answer is the same on an empty disk with producers that all raise
C15_LookupErrors ==
    /\ (/\ last.op = "load_skill"
        /\ EmptyOrBlank(last.skill) \/ last.skill \notin DOMAIN provider.skills) =>
           /\ last.exc = None
           /\ StartsWith(last.ret, ErrorPrefix)
    /\ (last.op = "read_skill_resource" /\ Condition(last.skill, last.resource) # 0) =>
           /\ last.exc = None
           /\ StartsWith(last.ret, ErrorPrefix)
           /\ last.ret = _read_skill_resource(NoDisk, NoProducers, provider.skills,
                                              last.skill, last.resource).ret
           /\ \A c \in ReadInputs :
                 Condition(c[1], c[2]) \notin {0, Condition(last.skill, last.resource)} =>
                     _read_skill_resource(fs, producers, provider.skills, c[1], c[2]).ret
                         # last.ret

\* a resource the code-defined skill does not have was asked for
C15_Witness ==
    /\ last.op = "read_skill_resource"
    /\ last.skill = SC
    /\ Condition(last.skill, last.resource) = 4
    /\ \E c \in ReadInputs : Condition(c[1], c[2]) = 3
    /\ \E c \in ReadInputs : Condition(c[1], c[2]) = 2
    /\ \E c \in ReadInputs : Condition(c[1], c[2]) = 1

-----------------------------------------------------------------------------
(* Resource names of a registered skill, under SpecCatalog *)

\* the content a static resource of the called skill holds under exactly
\* the name asked for
OwnContents ==
    {CalledSkill.resources[i].content : i \in
        {j \in 1..Len(CalledSkill.resources) :
            /\ CalledSkill.resources[j].name = last.resource
            /\ CalledSkill.resources[j].content # None}}

\* C16: in every registered skill no two resources have names that are
\* equal when case is ignored, and a read of a registered resource under
\* its own name returns that resource
C16_ResourceNamesDistinct ==
    /\ phase = "Built" =>
          \A n \in DOMAIN provider.skills :
              \A i, j \in 1..Len(Deref(provider.skills[n]).resources) :
                  i # j => Lower(Deref(provider.skills[n]).resources[i].name)
                             # Lower(Deref(provider.skills[n]).resources[j].name)
    /\ (/\ last.op = "read_skill_resource"
        /\ last.skill \in DOMAIN provider.skills) =>
           \A content \in OwnContents : last.ret = content[1]

-----------------------------------------------------------------------------
(* How read_skill_resource matches names, under SpecCatalog *)

\* the resources of the called skill whose names equal the name asked for
\* when case is ignored
Matches ==
    {i \in 1..Len(CalledSkill.resources) :
        Lower(CalledSkill.resources[i].name) = Lower(last.resource)}

SkillNotFoundText ==
    ErrorPrefix \o <<" Skill '">> \o last.skill \o <<"' not found.">>

ResourceNotFoundText ==
    ErrorPrefix \o <<" Resource '">> \o last.resource \o <<"' not found in skill '">>
    \o last.skill \o <<"'.">>

\* C17: read_skill_resource finds a resource if and only if a resource of
\* the named skill has the requested name, case ignored; the skill's name is
\* matched as it is; and for a file-backed resource a request that differs
\* from the registered name in case only returns the content of the file
\* under the registered name
C17_CaseInsensitiveLookup ==
    (/\ last.op = "read_skill_resource"
     /\ ~EmptyOrBlank(last.skill)
     /\ ~EmptyOrBlank(last.resource)) =>
        /\ last.skill \notin DOMAIN provider.skills => last.ret = SkillNotFoundText
        /\ last.skill \in DOMAIN provider.skills =>
              /\ (last.ret # ResourceNotFoundText) <=> (Matches # {})
              /\ Matches # {} =>
                    \E i \in Matches :
                        IF CalledSkill.resources[i].content # None
                        THEN last.ret = CalledSkill.resources[i].content[1]
                        ELSE IF CalledSkill.path # <<>>
                        THEN last.ret = _read_file_skill_resource(fs, CalledSkill.path,
                                            CalledSkill.resources[i].name).ret
                        ELSE last.ret = PyStr(producers[CalledSkill.resources[i]
                                                  .function[1].id].value)

\* refs/FAQ.md of the file-based skill was asked for as REFS/faq.md and the
\* file's content came back
C17_Witness ==
    /\ last.op = "read_skill_resource"
    /\ last.skill = SA
    /\ last.resource = <<"REFS", "/", "faq.md">>
    /\ last.skill \in DOMAIN provider.skills
    /\ CalledSkill.path # <<>>
    /\ last.resource \notin ResourceNames(CalledSkill)
    /\ last.ret = <<"FAQ content">>

\* a skill was asked for under a name that differs in case from a registered
\* one, and was not found
C17_WitnessSkillName ==
    /\ last.op = "read_skill_resource"
    /\ last.skill = <<"A", "-", "1">>
    /\ <<"a", "-", "1">> \in DOMAIN provider.skills
    /\ last.ret = SkillNotFoundText

-----------------------------------------------------------------------------
(* The advertisement, under SpecCatalog *)

\* the names the constructor registers, or would have registered had the
\* template not stopped it
Registered ==
    DOMAIN _load_skills(fs, iterOrder, args.skill_paths, codeSkills,
                        args.resource_extensions).skills

\* the custom template does not pass the validation of lines 814-829
Rejected ==
    /\ args.instruction_template # None
    /\ TemplateRejected(args.instruction_template[1]) # None

\* C18 as stated: the advertisement is None whenever the registry is empty,
\* whatever template was supplied, and a string whenever the registry is not
\* empty and the template is valid
C18_NoneWheneverEmpty ==
    phase # "Uninitialized" =>
        /\ Registered = {} => phase = "Built" /\ provider.instructions = None
        /\ (Registered # {} /\ ~Rejected) => phase = "Built" /\ provider.instructions # None

\* C18, amended: a custom template that fails validation makes the
\* constructor raise ValueError whether the registry is empty or not; with
\* no template or one that passes validation the advertisement is None for
\* an empty registry and a string for a non-empty one
C18_AbsentOrRaised ==
    phase # "Uninitialized" =>
        /\ Rejected => phase = "Raised" /\ last.exc = Some("ValueError")
        /\ (~Rejected /\ Registered = {}) =>
              phase = "Built" /\ provider.instructions = None
        /\ (~Rejected /\ Registered # {}) =>
              /\ phase = "Built"
              /\ provider.instructions # None
              /\ provider.instructions[1] \in Seq(STRING)
              /\ DOMAIN provider.skills = Registered

\* nothing was registered and the custom template, a valid one, gave None
C18_Witness ==
    /\ phase = "Built"
    /\ Registered = {}
    /\ args.instruction_template = Some(<<"Skills:", "\n", "{", "skills", "}">>)
    /\ provider.instructions = None

\* nothing was registered and the template without placeholder was refused
C18_WitnessRejected ==
    /\ phase = "Raised"
    /\ Registered = {}
    /\ args.instruction_template = Some(<<"no placeholder">>)

\* the lines of the advertisement that open an entry, and the names its
\* <name> lines carry
EntryLines(ls) == SelectSeq(ls, LAMBDA l : l # <<>> /\ l[Len(l)] = "  <skill>")
NameLines(ls) == SelectSeq(ls, LAMBDA l : l # <<>> /\ l[1] = "    <name>")
EntryNames(ls) == [k \in 1..Len(NameLines(ls)) |->
                      SubSeq(NameLines(ls)[k], 2, Len(NameLines(ls)[k]) - 1)]

\* the lines ls hold one entry per skill of the registry reg, ascending by
\* name, each with the skill's escaped name and description
ListsEverySkill(ls, reg) ==
    /\ Len(EntryLines(ls)) = Cardinality(DOMAIN reg)
    /\ Len(NameLines(ls)) = Cardinality(DOMAIN reg)
    /\ Range(EntryNames(ls)) = DOMAIN reg
    /\ \A k \in 1..(Len(NameLines(ls)) - 1) : StrLess(EntryNames(ls)[k], EntryNames(ls)[k + 1])
    /\ \A n \in DOMAIN reg :
          \E k \in 1..(Len(ls) - 3) :
              /\ ls[k][Len(ls[k])] = "  <skill>"
              /\ ls[k + 1] = <<"    <name>">> \o xml_escape(n) \o <<"</name>">>
              /\ ls[k + 2] = <<"    <description>">> \o xml_escape(Deref(reg[n]).description)
                             \o <<"</description>">>
              /\ Range(SubSeq(ls[k + 2], 2, Len(ls[k + 2]) - 1)) \cap MarkupChars = {}
              /\ ls[k + 3][1] = "  </skill>"

\* the advertisement the constructor builds when it is handed the
\* code-defined skills, and the directory entries, in the opposite order
OtherOrder == Build(fs, Reverse(iterOrder), args, Reverse(codeSkills))

\* C19: for a non-empty registry the advertisement holds exactly one entry
\* per registered skill, in strictly ascending order of name, each with the
\* skill's name and description escaped, and the text does not depend on
\* the order in which the skills were handed over or discovered
C19_SortedEntries ==
    (phase = "Built" /\ DOMAIN provider.skills # {}) =>
        /\ provider.instructions # None
        /\ ListsEverySkill(SplitLines(provider.instructions[1]), provider.skills)
        /\ DOMAIN OtherOrder.skills = DOMAIN provider.skills
              => OtherOrder.instructions = provider.instructions

\* the template holds the replacement field {skills} as it is, without a
\* format specification
PlainPlaceholder ==
    \/ args.instruction_template = None
    \/ \E i \in 1..(Len(args.instruction_template[1]) - 2) :
          /\ args.instruction_template[1][i] = "{"
          /\ args.instruction_template[1][i + 1] = "skills"
          /\ args.instruction_template[1][i + 2] = "}"

\* the same for the templates whose placeholder is replaced by the whole
\* list
C19_SortedEntriesPlain ==
    PlainPlaceholder => C19_SortedEntries

\* the template holds a replacement field named skills
HasSkillsField(template) ==
    \E i \in 1..(Len(template) - 2) :
        /\ template[i] = "{"
        /\ template[i + 1] = "skills"
        /\ template[i + 2] \in {"}", ":.9"}

\* sub occurs in text
Contains(text, sub) ==
    \E i \in 0..(Len(text) - Len(sub)) : SubSeq(text, i + 1, i + Len(sub)) = sub

\* the list of the registered skills, as lines 834-840 build it
RegisteredList == SkillsList(SkillObjects(provider.skills, codeSkills))

\* C20: a custom template without the {skills} placeholder, with another
\* or a positional field, or malformed, makes the constructor raise
\* ValueError; an advertisement that was produced holds the skills list;
\* and doubled braces come out as literal braces next to the list
C20_InvalidTemplateRaises ==
    (phase # "Uninitialized" /\ args.instruction_template # None) =>
        /\ ~HasSkillsField(args.instruction_template[1]) =>
              phase = "Raised" /\ last.exc = Some("ValueError")
        /\ (phase = "Built" /\ provider.instructions # None) =>
              Contains(provider.instructions[1], RegisteredList)
        /\ (/\ phase = "Built"
            /\ provider.instructions # None
            /\ args.instruction_template[1]
                   = <<"{", "{", "x", "}", "}", " ", "{", "skills", "}">>) =>
              provider.instructions[1] = <<"{", "x", "}", " ">> \o RegisteredList

\* the same without the two templates that pass validation and lose the list
C20_OtherTemplates ==
    args.instruction_template \notin
        {Some(<<PROBE, " only">>), Some(<<"{", "skills", ":.9", "}">>)}
    => C20_InvalidTemplateRaises

-----------------------------------------------------------------------------
(* Resources registered in program code, under SpecObjects *)

\* every resource object there is: those of the integrator's skill objects
\* and those of the registered file-based skills
AllResources ==
    UNION {Range(codeSkills[i].resources) : i \in 1..Len(codeSkills)}
    \cup UNION {Range(provider.skills[n].obj.resources) :
                    n \in {m \in DOMAIN provider.skills : provider.skills[m].ref = 0}}

OneBacking(resource) ==
    /\ ~EmptyOrBlank(resource.name)
    /\ (resource.content = None) # (resource.function = None)

\* C21: every AgentSkillResource has exactly one backing, static content
\* or a callable; the constructor raises ValueError when it is given
\* neither or both, or an empty or blank name, and no object then comes to
\* exist; resources attached by file discovery and by the skill.resource
\* decorator are backed by a callable only
C21_ExactlyOneBacking ==
    /\ \A resource \in AllResources : OneBacking(resource)
    /\ last.op \in {"AgentSkillResource", "resource"} =>
          /\ (\/ EmptyOrBlank(last.args.name)
              \/ last.args.content = None /\ last.args.function = None
              \/ last.args.content # None /\ last.args.function # None)
                 <=> (last.exc = Some("ValueError"))
          /\ last.exc \in {None, Some("ValueError")}
          /\ last.exc = None =>
                /\ last.ret = [name |-> last.args.name, description |-> last.args.description,
                               content |-> last.args.content, function |-> last.args.function]
                /\ last.ret \in AllResources
    /\ (last.op = "resource" /\ last.exc = None) =>
          last.ret.content = None /\ last.ret.function # None
    /\ \A n \in DOMAIN provider.skills :
          provider.skills[n].ref = 0 =>
              \A resource \in Range(provider.skills[n].obj.resources) :
                  /\ resource.content = None
                  /\ resource.function # None
                  /\ resource.function[1].kind = "reader"

\* the constructor was given content and a function and raised, with file
\* resources discovered and a decorated function attached
C21_Witness ==
    /\ phase = "Built"
    /\ last.op = "AgentSkillResource"
    /\ last.args.content # None
    /\ last.args.function # None
    /\ last.exc = Some("ValueError")
    /\ \E resource \in AllResources : resource.function # None /\ resource.function[1].kind = "reader"
    /\ \E resource \in AllResources : resource.name = <<"get-y">>

-----------------------------------------------------------------------------
(* Reads without a cache, under Spec *)

\* the resource of the called skill that the read found
FoundByLast == FoundResource(provider.skills, last.skill, last.resource)

ReadFound ==
    /\ last.op = "read_skill_resource"
    /\ ReadPrecheck(provider.skills, last.skill, last.resource) = None

\* C22: nothing is cached: a read of a file-backed resource returns what
\* the file holds at the time of the call, also after the file changed, and
\* a read of a callable-backed resource invokes its producer exactly once
C22_NoCache ==
    ReadFound =>
        /\ FoundByLast.function # None =>
              /\ last.calls = <<FoundByLast.function[1]>>
              /\ (/\ FoundByLast.function[1].kind # "reader"
                  /\ producers[FoundByLast.function[1].id].exc = None) =>
                     last.ret = PyStr(producers[FoundByLast.function[1].id].value)
        /\ (/\ CalledSkill.path # <<>>
            /\ FoundByLast.name = <<"doc.md">>
            /\ fs[SkillA \o <<"doc.md">>].k = "file"
            /\ fs[SkillA \o <<"doc.md">>].mode = "utf8") =>
               last.ret = fs[SkillA \o <<"doc.md">>].data
        /\ (CalledSkill.path # <<>> /\ FoundByLast.function # None) =>
               last.ret = ReadOutcome(_read_file_skill_resource(fs, CalledSkill.path,
                                          FoundByLast.name),
                                      last.skill, last.resource).ret
        /\ FoundByLast.content # None => last.calls = <<>>

\* doc.md was rewritten after the provider was built and the read returned
\* the new text
C22_Witness ==
    /\ ReadFound
    /\ last.skill = SA
    /\ last.resource = <<"doc.md">>
    /\ fs[SkillA \o <<"doc.md">>] = FileNode(<<"doc text v2">>)
    /\ last.ret = <<"doc text v2">>
    /\ Len(last.calls) = 1

-----------------------------------------------------------------------------
(* Failures at read time stay with their call, under Spec *)

\* the call ended in the except clause of the try block
ReadFailed == last.op = "read_skill_resource" /\ StartsWith(last.ret, <<"Error", " (">>)

\* nothing stands in the way of a read of resource: its file is a readable
\* text file reached without a link, or its producer returns
Healthy(resource) ==
    IF resource.function[1].kind = "reader"
    THEN _read_file_skill_resource(fs, resource.function[1].spath,
                                   resource.function[1].rn).exc = None
    ELSE producers[resource.function[1].id].exc = None

\* C23: a read that fails at read time affects only that call: no call
\* changes the registry or a resource registered in it, every read returns
\* what the world of that moment alone determines, and a read of a resource
\* whose cause of failure is gone succeeds whatever failed before
C23_FailureIsolated ==
    /\ [](ReadFound =>
            /\ last.ret = _read_skill_resource(fs, producers, provider.skills,
                                               last.skill, last.resource).ret
            /\ (FoundByLast.function # None /\ Healthy(FoundByLast)) =>
                   (~ReadFailed /\ last.why = "ok"))
    /\ [][phase = "Built" =>
             /\ provider'.skills = provider.skills
             /\ codeSkills' = codeSkills]_vars

\* a read of doc.md failed, the file became readable again and the next read
\* of it returned its text
C23_Witness ==
    /\ ReadFound
    /\ last.failed = <<last.skill, last.resource>>
    /\ last.resource = <<"doc.md">>
    /\ last.ret = fs[SkillA \o <<"doc.md">>].data
    /\ last.why = "ok"

\* the same for a producer that raised and then returned
C23_WitnessProducer ==
    /\ ReadFound
    /\ last.failed = <<last.skill, last.resource>>
    /\ last.resource = <<"get-x">>
    /\ last.ret = <<"made">>

\* a failed read: the resource is still registered as it was
C23_WitnessFailed ==
    /\ ReadFound
    /\ ReadFailed
    /\ FoundByLast.content = None
    /\ FoundByLast.function # None

-----------------------------------------------------------------------------
(* What a read of a found resource returns, under SpecObjects *)

\* the node doc.md of skill-a names, and what its link leads to
DocNow == fs[SkillA \o <<"doc.md">>]

\* C24: a read of a found resource returns the static content as it is, the
\* empty string too; str() of what the producer returned, of what its
\* coroutine returned when it is asynchronous; and for a resource of a file
\* skill the text of the file, provided the name stays in the skill
\* directory, names a regular file and no component of it is a link, and an
\* error string otherwise
C24_ReadReturns ==
    ReadFound =>
        /\ FoundByLast.content # None =>
              (last.ret = FoundByLast.content[1] /\ last.calls = <<>>)
        /\ (/\ FoundByLast.content = None
            /\ FoundByLast.function[1].kind \in {"sync", "async"}
            /\ producers[FoundByLast.function[1].id].exc = None) =>
               /\ last.ret = PyStr(producers[FoundByLast.function[1].id].value)
               /\ last.calls = <<FoundByLast.function[1]>>
        /\ (CalledSkill.path # <<>> /\ FoundByLast.name = <<"doc.md">>) =>
               /\ (DocNow.k = "file" /\ DocNow.mode = "utf8") => last.ret = DocNow.data
               /\ DocNow.k \in {"link", "none"} =>
                      last.ret = FailedToRead("ValueError", last.skill, last.resource)
               /\ DocNow.mode = "binary" =>
                      last.ret = FailedToRead("UnicodeDecodeError", last.skill, last.resource)
               /\ DocNow.mode = "noperm" =>
                      last.ret = FailedToRead("PermissionError", last.skill, last.resource)

\* the read of the resource whose static content is the empty string
C24_Witness ==
    /\ ReadFound
    /\ last.resource = <<"empty">>
    /\ FoundByLast.content = Some(<<>>)
    /\ last.ret = <<>>

\* the read of a resource with an asynchronous producer that returned 42
C24_WitnessAsync ==
    /\ ReadFound
    /\ FoundByLast.function # None
    /\ FoundByLast.function[1].kind = "async"
    /\ last.ret = <<"42">>

\* the reads of doc.md as a text file and as a link to a file outside
C24_WitnessFile ==
    /\ ReadFound
    /\ last.skill = SA
    /\ DocNow = FileNode(<<"doc text v2">>)
    /\ last.ret = <<"doc text v2">>
C24_WitnessLink ==
    /\ ReadFound
    /\ last.skill = SA
    /\ DocNow = LinkNode(Evil \o <<"secret.md">>)
    /\ StartsWith(last.ret, <<"Error", " (">>)

-----------------------------------------------------------------------------
(* The resources discovery registers, under SpecFiles *)

\* the allow-list in force
AllowList ==
    IF args.resource_extensions = {} THEN DEFAULT_RESOURCE_EXTENSIONS
    ELSE args.resource_extensions

\* the physical paths below skill-a that hold a regular file reached through
\* directories only, whose extension is in the allow-list whatever the
\* letter case and whose name is not the manifest's in any letter case
ResourceFiles ==
    {path \in DOMAIN fs :
        /\ Len(path) > Len(SkillA)
        /\ SubSeq(path, 1, Len(SkillA)) = SkillA
        /\ fs[path].k = "file"
        /\ \A i \in (Len(SkillA) + 1)..(Len(path) - 1) : fs[SubSeq(path, 1, i)].k = "dir"
        /\ \E e \in AllowList : LowerAtom(e) = LowerAtom(Suffix(Last(path)))
        /\ Lower(<<Last(path)>>) # Lower(<<SKILL_FILE_NAME>>)}

\* a path below skill-a as an identifier: its components below the skill
\* directory, joined by forward slashes
Identifier(path) == AsPosix(FALSE, SubSeq(path, Len(SkillA) + 1, Len(path)))

SkillABuilt == phase = "Built" /\ SA \in DOMAIN provider.skills

\* C25: the resources registered for a skill directory are exactly its
\* regular files at any depth with an extension of the allow-list (the
\* default list when none is configured) compared without regard to case,
\* not named like the manifest in any case and not reached through a link;
\* a directory is never one; each is named by its relative path with forward
\* slashes, once
C25_DiscoveredResources ==
    SkillABuilt =>
        With(provider.skills[SA].obj.resources, LAMBDA resources :
            /\ {resources[i].name : i \in 1..Len(resources)}
                   = {Identifier(path) : path \in ResourceFiles}
            /\ Len(resources) = Cardinality(ResourceFiles)
            /\ \A i \in 1..Len(resources) : "\\" \notin Range(resources[i].name))

\* a directory with files of every kind, read with the list (".MD",): the
\* files ending in .md and .MD are registered, three levels down too;
\* data.bin, skill.md and the nested manifest are not
C25_Witness ==
    /\ SkillABuilt
    /\ args.resource_extensions = {".MD"}
    /\ {p \in ExtraFiles : fs[p].k = "file"} = ExtraFiles
    /\ fs[SkillA \o <<"doc.md">>].k = "file"
    /\ fs[SkillA \o <<"refs">>].k = "dir"
    /\ {provider.skills[SA].obj.resources[i].name :
            i \in 1..Len(provider.skills[SA].obj.resources)}
          = {<<"doc.md">>, <<"FAQ.MD">>, <<"refs", "/", "FAQ.md">>,
             <<"l2", "/", "l3", "/", "doc.md">>}

\* doc.md is a directory, refs a link to a directory outside: neither they
\* nor what lies behind the link is registered
C25_WitnessDirectory ==
    /\ SkillABuilt
    /\ fs[SkillA \o <<"doc.md">>].k = "dir"
    /\ fs[SkillA \o <<"refs">>].k = "link"
    /\ fs[SkillA \o <<"data.bin">>].k = "file"
    /\ args.resource_extensions = {".bin", ".md"}
    /\ <<"data.bin">> \in {provider.skills[SA].obj.resources[i].name :
                               i \in 1..Len(provider.skills[SA].obj.resources)}

-----------------------------------------------------------------------------
(* What before_run adds to a run's context, under SpecCatalog *)

RanBefore == phase = "Built" /\ last.op = "before_run"

\* C26: before_run adds nothing when no skill is registered; otherwise it
\* adds the advertisement, which is not empty, and the two tools load_skill
\* and read_skill_resource, in this order and nothing else; the text is the
\* one the constructor built, which no later call changes
C26_BeforeRun ==
    /\ [](RanBefore =>
            IF DOMAIN provider.skills = {}
            THEN context = EmptyContext
            ELSE /\ provider.instructions # None
                 /\ provider.instructions[1] # <<>>
                 /\ context.instructions = <<provider.instructions[1]>>
                 /\ context.tools = <<"load_skill", "read_skill_resource">>)
    /\ [][phase = "Built" => provider'.instructions = provider.instructions]_vars

\* a run of a provider with skills under a custom template
C26_Witness ==
    /\ RanBefore
    /\ Cardinality(DOMAIN provider.skills) >= 2
    /\ args.instruction_template = Some(<<"Skills:", "\n", "{", "skills", "}">>)
    /\ Len(context.instructions) = 1
    /\ StartsWith(context.instructions[1], <<"Skills:", "\n">>)
    /\ context.tools = _create_tools

\* a run of a provider without skills
C26_WitnessEmpty ==
    /\ RanBefore
    /\ DOMAIN provider.skills = {}
    /\ context = EmptyContext

-----------------------------------------------------------------------------
(* What is served for a code-defined skill after construction, under SpecObjects *)

\* what load_skill returns for the code-defined skill, and the resource
\* names read_skill_resource resolves for it
ServedText == _load_skill(provider.skills, SC).ret
ServedNames ==
    {c[2] : c \in {d \in ObjectReads : d[1] = SC /\ ReadPrecheck(provider.skills, SC, d[2]) = None}}

\* C27: what a provider serves for a skill is fixed when it is built: no
\* step after construction, the registration of a further resource on the
\* skill object included, changes the text load_skill returns for the skill
\* or the resource names read_skill_resource resolves for it
C27_ServedFixedAtBuild ==
    [][phase = "Built" => (ServedText' = ServedText /\ ServedNames' = ServedNames)]_vars

-----------------------------------------------------------------------------
(* Several failure conditions at once, under Spec *)

ReadCalled == last.op = "read_skill_resource"
UnknownSkill == last.skill \notin DOMAIN provider.skills

\* C28: read_skill_resource reports the first condition that holds of: the
\* skill name is empty or blank, the resource name is empty or blank, the
\* skill is unknown, the resource is unknown.  An unknown skill with an
\* empty resource name is answered with the message about the resource
\* name, and a call for an unknown skill returns without raising
C28_ErrorPriority ==
    ReadCalled =>
        /\ EmptyOrBlank(last.skill) =>
              last.ret = <<"Error", ":", " Skill name cannot be empty.">>
        /\ (~EmptyOrBlank(last.skill) /\ EmptyOrBlank(last.resource)) =>
              last.ret = <<"Error", ":", " Resource name cannot be empty.">>
        /\ (~EmptyOrBlank(last.skill) /\ ~EmptyOrBlank(last.resource) /\ UnknownSkill) =>
              /\ last.ret = SkillNotFoundText
              /\ last.exc = None
        /\ (/\ ~EmptyOrBlank(last.skill) /\ ~EmptyOrBlank(last.resource) /\ ~UnknownSkill
            /\ Matches = {}) =>
              last.ret = ResourceNotFoundText

\* an unknown skill and an empty resource name
C28_Witness ==
    /\ ReadCalled
    /\ last.skill = <<"z">>
    /\ UnknownSkill
    /\ last.resource = <<>>
    /\ last.ret = <<"Error", ":", " Resource name cannot be empty.">>

\* an empty skill name and an empty resource name
C28_WitnessBothEmpty ==
    /\ ReadCalled
    /\ last.skill = <<" ">>
    /\ last.resource = <<>>
    /\ last.ret = <<"Error", ":", " Skill name cannot be empty.">>

-----------------------------------------------------------------------------
(* The guards of a file read, under Spec *)

FileReadCalled ==
    /\ last.op = "_read_file_skill_resource"
    /\ CalledSkill.path # <<>>

\* the path the call reads and the skill directory, both normalised
CalledPaths == ReadPaths(CalledSkill.path, last.resource)
Contained == _is_path_within_directory(CalledPaths.full, CalledPaths.root)

\* C29: _read_file_skill_resource tests containment, then is_file(), then
\* links, and reads after that: a name that leaves the skill directory is
\* answered "outside" whatever the disk holds, nothing at all included; a
\* contained name that is not an existing regular file, a dangling link
\* included, is answered "not found"; "symlink" is the answer only for a
\* contained existing file; and the file is read only when all three passed
C29_GuardOrder ==
    FileReadCalled =>
        /\ ~Contained =>
              /\ last.exc = Some("ValueError") /\ last.why = "outside"
              /\ _read_file_skill_resource(NoDisk, CalledSkill.path, last.resource)
                     = Raised("ValueError", "outside")
        /\ (Contained /\ ~IsFile(fs, CalledPaths.full)) =>
              (last.exc = Some("ValueError") /\ last.why = "not found")
        /\ last.why = "symlink" =>
              /\ last.exc = Some("ValueError")
              /\ Contained
              /\ IsFile(fs, CalledPaths.full)
        /\ (last.exc = None \/ last.why = "read_text") =>
              /\ Contained
              /\ IsFile(fs, CalledPaths.full)
              /\ ~_has_symlink_in_path(fs, CalledPaths.full, CalledPaths.root).val

\* doc.md is a link to a path that does not exist: not found
C29_Witness ==
    /\ FileReadCalled
    /\ last.resource = <<"doc.md">>
    /\ fs[SkillA \o <<"doc.md">>] = LinkNode(<<"w", "gone">>)
    /\ last.why = "not found"

\* a name outside the skill directory that names nothing: outside
C29_WitnessOutside ==
    /\ FileReadCalled
    /\ last.resource = <<"..", "/", "skill-a-evil", "/", "nothing.md">>
    /\ last.why = "outside"

\* doc.md is a link to an existing file: symlink
C29_WitnessSymlink ==
    /\ FileReadCalled
    /\ last.resource = <<"doc.md">>
    /\ fs[SkillA \o <<"doc.md">>] = LinkNode(Evil \o <<"secret.md">>)
    /\ last.why = "symlink"

-----------------------------------------------------------------------------
(* The manifest is a snapshot, under SpecSnapshot *)

\* the text of skill-a/SKILL.md when the constructor ran: Init writes the
\* manifest with a byte order mark and a quoted description where the root
\* is /w/r2, the plain one where it is /w/r1
DiscoveryManifest ==
    IF args.skill_paths = <<P(R2)>>
    THEN <<BOM>> \o Manifest(SA, <<"'">> \o D1 \o <<"'">>, "Body A")
    ELSE Manifest(SA, D1, "Body A")

ManifestNow == fs[SkillA \o <<"SKILL.md">>]
ManifestChanged == ManifestNow # FileNode(DiscoveryManifest)

\* C30: after the manifest of a file-based skill was rewritten or removed,
\* load_skill returns the text discovery read, the skill stays registered
\* under its discovery-time name, the advertisement carries that name and
\* the discovery-time description, and a read of the skill's resource
\* returns what the file holds now
C30_ManifestSnapshot ==
    phase = "Built" =>
        /\ SA \in DOMAIN provider.skills
        /\ <<"z">> \notin DOMAIN provider.skills
        /\ provider.skills[SA].obj.description = D1
        /\ (last.op = "load_skill" /\ last.skill = SA) => last.ret = DiscoveryManifest
        /\ RanBefore =>
              /\ Contains(context.instructions[1],
                          <<"    <name>">> \o xml_escape(SA) \o <<"</name>">>)
              /\ Contains(context.instructions[1],
                          <<"    <description>">> \o xml_escape(D1) \o <<"</description>">>)
              /\ ~Contains(context.instructions[1], D2)
              /\ ~Contains(context.instructions[1], <<"    <name>", "z">>)
        /\ (/\ ReadFound
            /\ last.resource = <<"doc.md">>
            /\ DocNow.k = "file"
            /\ DocNow.mode = "utf8") => last.ret = DocNow.data

\* the manifest has another description and body now, and load_skill
\* returned the text of discovery
C30_Witness ==
    /\ ManifestNow = FileNode(Manifest(SA, D2, "Body A v2"))
    /\ last.op = "load_skill"
    /\ last.skill = SA
    /\ last.ret = DiscoveryManifest

\* the manifest is gone, and before_run injected the advertisement
C30_WitnessDeleted ==
    /\ ManifestNow = NoNode
    /\ RanBefore
    /\ Len(context.instructions) = 1

\* the manifest is gone and doc.md was rewritten: the read returned the new text
C30_WitnessResource ==
    /\ ManifestChanged
    /\ ReadFound
    /\ last.resource = <<"doc.md">>
    /\ last.ret = <<"doc text v2">>

====
